---- MODULE Spec2Model ----
(***************************************************************************)
(* A model of django_consistency_enforcer's orchestrator (TestRunner) and  *)
(* of the ErrorContainer it fills.                                         *)
(*                                                                         *)
(*   SpecRun    one call of TestRunner.run_scenarios on a runner           *)
(*   SpecBuild  one call of TestRunner.from_raw_patterns                   *)
(*                                                                         *)
(* A Python dict is modelled as a sequence of <<key, value>> pairs with    *)
(* unique keys, in insertion order (dicts iterate in insertion order).     *)
(***************************************************************************)
EXTENDS Integers, Sequences, FiniteSets, TLC

(* ------------------------------- bounds -------------------------------- *)

\* number of patterns the runner holds
MaxPatterns == 2
\* most functions relevant_functions() yields for one pattern
MaxFunctions == 2
\* number of pattern scenarios / function scenarios passed to run_scenarios
MaxPatternScenarios == 2
MaxFunctionScenarios == 2
\* most violations the scenarios of one run_scenarios call record
MaxViolations == 2
\* number of raw routes passed to from_raw_patterns
MaxRawPatterns == 3

\* "no exception has left the call"
NoException == [exc |-> "None"]

VARIABLES
    \* ---- shared by both calls
    pc,                 \* position in the running call, or how it ended
    errors,             \* the call's local ErrorContainer
    patterns,           \* TestRunner._patterns / the list being built
    raised,             \* the exception that left the call, or NoException
    \* ---- run_scenarios: inputs
    excluded,           \* patterns whose exclude() returns True
    nfunctions,         \* pattern -> number of functions relevant_functions() yields
    fexcluded,          \* functions for which exclude_function() returns True
    pattern_scenarios,  \* the pattern scenarios, in the order given
    function_scenarios, \* the function scenarios, in the order given
    exit_early,         \* what scenario.exit_early returned when last read
    \* ---- run_scenarios: loop positions
    si, pi, fi,
    \* ---- run_scenarios: what was observed (the tests' `called` list and the like)
    called,             \* scenario.run calls, in order
    exclude_function_calls, \* <<pattern, function>> exclude_function() was called with
    recorded,           \* rendered string -> number of violations scenarios recorded
    sweep_failed,       \* the scenario running has recorded a violation in its sweep
    patterns_failed,    \* some pattern scenario recorded a violation
    \* ---- from_raw_patterns: inputs, position and observations
    raw_patterns,       \* per raw route: what the excluder and the pattern-maker do
    has_excluder,       \* raw_pattern_excluder is not None
    ri,                 \* index of the raw route being visited
    build_called,       \* excluder / pattern_maker calls, in order
    \* ---- an ErrorContainer used on its own
    added,              \* the violations passed to add, in call order
    yielded,            \* what the last read of the container yielded
    \* ---- one call of a function or of a scenario's run
    args,               \* the arguments of the call
    result              \* what the call returned or raised, or NoResult before it

vars == << pc, errors, patterns, raised, excluded, nfunctions, fexcluded,
           pattern_scenarios, function_scenarios, exit_early, si, pi, fi, called,
           exclude_function_calls, recorded, sweep_failed, patterns_failed,
           raw_patterns,
           has_excluder, ri, build_called, added, yielded, args, result >>

(* --------------------------- violations -------------------------------- *)

\* InvalidPattern instances: a class and the fields its __str__ renders.
\* Two instances of different classes may render the same string.
ErrorPool ==
    { [cls |-> "ErrorA", value |-> "a"],
      [cls |-> "ErrorB", value |-> "b"],
      [cls |-> "ErrorB", value |-> "a"] }

\* str(error)
Str(error) == error.value

ErrorStrs == { Str(e) : e \in ErrorPool }

\* bool(error): exceptions define neither __bool__ nor __len__
Truthy(error) == error \in ErrorPool

(* ------------------------------ dicts ---------------------------------- *)

HasKey(d, k) == \E i \in DOMAIN d : d[i][1] = k

Get(d, k) == d[CHOOSE i \in DOMAIN d : d[i][1] = k][2]

Put(d, k, v) ==
    IF HasKey(d, k)
    THEN [i \in DOMAIN d |-> IF d[i][1] = k THEN <<k, v>> ELSE d[i]]
    ELSE Append(d, <<k, v>>)

(* -------------------------- ErrorContainer ----------------------------- *)

\* ErrorContainer(): both dicts empty
ErrorContainer == [by_error_str |-> <<>>, error_by_str |-> <<>>]

\* faulty variant: the count is set to zero on every add
add_ResetsCount(container, error) ==
    LET error_str == Str(error)
        ebs == IF ~HasKey(container.error_by_str, error_str)
               THEN Put(container.error_by_str, error_str, error)
               ELSE container.error_by_str
        bes == Put(container.by_error_str, error_str, 0)
    IN  [ by_error_str |-> Put(bes, error_str, Get(bes, error_str) + 1),
          error_by_str |-> ebs ]

\* faulty variant: the stored instance is replaced on every add
add_LastWins(container, error) ==
    LET error_str == Str(error)
        ebs == Put(container.error_by_str, error_str, error)
        bes == IF ~HasKey(container.by_error_str, error_str)
               THEN Put(container.by_error_str, error_str, 0)
               ELSE container.by_error_str
    IN  [ by_error_str |-> Put(bes, error_str, Get(bes, error_str) + 1),
          error_by_str |-> ebs ]

\* ErrorContainer.add
add(container, error) ==
    LET error_str == Str(error)
        ebs == IF ~HasKey(container.error_by_str, error_str)
               THEN Put(container.error_by_str, error_str, error)
               ELSE container.error_by_str
        bes == IF ~HasKey(container.by_error_str, error_str)
               THEN Put(container.by_error_str, error_str, 0)
               ELSE container.by_error_str
    IN  [ by_error_str |-> Put(bes, error_str, Get(bes, error_str) + 1),
          error_by_str |-> ebs ]

\* ErrorContainer.__iter__
Iter(container) ==
    [ i \in DOMAIN container.by_error_str |->
        Get(container.error_by_str, container.by_error_str[i][1]) ]

\* any(errors)
any(container) == \E i \in DOMAIN Iter(container) : Truthy(Iter(container)[i])

\* FoundInvalidPatterns(errors=errors)
FoundInvalidPatterns(container, line) ==
    [exc |-> "FoundInvalidPatterns", errors |-> container, line |-> line]

(* ----------------------- run_scenarios: inputs ------------------------- *)

\* pattern.exclude(auth_user_model=...)
exclude(pattern) == pattern \in excluded

\* faulty variant: the functions are yielded last first
relevant_functions_Reversed(pattern) ==
    [k \in 1..nfunctions[pattern] |-> nfunctions[pattern] + 1 - k]

\* pattern.relevant_functions(): the pattern's functions, in order
relevant_functions(pattern) == [k \in 1..nfunctions[pattern] |-> k]

\* faulty variant: the answer of exclude_function is not used
exclude_function_Never(pattern, function) == FALSE

\* pattern.exclude_function(auth_user_model=..., function=...)
exclude_function(pattern, function) == function \in fexcluded

\* what one scenario.run call adds to the container: nothing or one violation
ScenarioErrors == { e \in ErrorPool : e.cls = "ErrorB" }

RECURSIVE Sum(_, _)
Sum(f, S) == IF S = {} THEN 0
             ELSE LET x == CHOOSE x \in S : TRUE IN f[x] + Sum(f, S \ {x})

\* violations recorded so far by the scenarios of this call
NumRecorded == Sum(recorded, ErrorStrs)

RunOutcomes ==
    {<<>>} \cup { <<e>> : e \in IF NumRecorded < MaxViolations
                                 THEN ScenarioErrors ELSE {} }

\* `for x in xs` has no further element
exhausted(i, xs) == i > Len(xs)

\* faulty variant: the flag is not looked at
exit_early_fires_AnyOnly(scenario_exit_early, container) == any(container)

\* `scenario.exit_early and any(errors)`
exit_early_fires(scenario_exit_early, container) ==
    scenario_exit_early /\ any(container)

\* the effect of scenario.run(errors=errors, ...) on the container
run(container, adds) ==
    IF adds = <<>> THEN container ELSE add(container, adds[1])

Call(kind, s, p, f) == [kind |-> kind, scenario |-> s, pattern |-> p, function |-> f]

Record(adds) ==
    IF adds = <<>> THEN recorded
    ELSE [recorded EXCEPT ![Str(adds[1])] = @ + 1]

buildVars == << raw_patterns, has_excluder, ri, build_called >>
containerVars == << added, yielded >>
callVars == << args, result >>

\* nothing has been read from the container since the last add
NothingYielded == [kind |-> "None", value |-> <<>>]

\* the call has not been made
NoResult == [kind |-> "None"]

\* no single call is being looked at
NoCall == args = <<>> /\ result = NoResult
runInputs == << patterns, excluded, nfunctions, fexcluded,
                pattern_scenarios, function_scenarios >>

\* A TestRunner holding its patterns, at the first line of run_scenarios
InitRun ==
    /\ pc = "pattern_scenarios"
    /\ errors = ErrorContainer
    /\ patterns = [i \in 1..MaxPatterns |-> i]
    /\ raised = NoException
    /\ excluded \in SUBSET (1..MaxPatterns)
    /\ nfunctions \in [1..MaxPatterns -> 0..MaxFunctions]
    \* an excluded pattern keeps its functions: they must never be looked at
    /\ \A p \in excluded : nfunctions[p] = MaxFunctions
    /\ fexcluded \in SUBSET (1..MaxFunctions)
    /\ pattern_scenarios = [s \in 1..MaxPatternScenarios |-> s]
    /\ function_scenarios = [s \in 1..MaxFunctionScenarios |-> s]
    /\ exit_early = FALSE
    /\ si = 1 /\ pi = 1 /\ fi = 1
    /\ called = <<>>
    /\ exclude_function_calls = {}
    /\ recorded = [s \in ErrorStrs |-> 0]
    /\ sweep_failed = FALSE
    /\ patterns_failed = FALSE
    /\ added = <<>>
    /\ yielded = NothingYielded
    /\ NoCall
    /\ raw_patterns = <<>>
    /\ has_excluder = FALSE
    /\ ri = 1
    /\ build_called = <<>>

(* ----------------------- run_scenarios: steps -------------------------- *)

\* lines 96-102: one iteration of the inner loop of a pattern scenario
PatternScenarioStep ==
    /\ pc = "pattern_scenarios"
    /\ ~exhausted(si, pattern_scenarios)
    /\ ~exhausted(pi, patterns)
    /\ IF exclude(patterns[pi])
       THEN UNCHANGED << errors, called, recorded, sweep_failed, patterns_failed >>
       ELSE \E adds \in RunOutcomes :
              /\ errors' = run(errors, adds)
              /\ called' = Append(called, Call("pattern", si, patterns[pi], 0))
              /\ recorded' = Record(adds)
              /\ sweep_failed' = (sweep_failed \/ adds # <<>>)
              /\ patterns_failed' = (patterns_failed \/ adds # <<>>)
    /\ pi' = pi + 1
    /\ UNCHANGED << pc, raised, si, fi, exclude_function_calls >>
    /\ UNCHANGED exit_early
    /\ UNCHANGED runInputs
    /\ UNCHANGED buildVars
    /\ UNCHANGED containerVars
    /\ UNCHANGED callVars

\* faulty variant: the early exit leaves the loop over the pattern scenarios (break)
\* instead of raising
PatternScenarioSweepEnd_Break ==
    /\ pc = "pattern_scenarios"
    /\ ~exhausted(si, pattern_scenarios)
    /\ exhausted(pi, patterns)
    /\ exit_early' \in BOOLEAN
    /\ si' = IF exit_early_fires(exit_early', errors)
             THEN Len(pattern_scenarios) + 1 ELSE si + 1
    /\ pi' = 1
    /\ sweep_failed' = FALSE
    /\ UNCHANGED << pc, raised, errors, fi, called, exclude_function_calls,
                    recorded, patterns_failed >>
    /\ UNCHANGED runInputs
    /\ UNCHANGED buildVars
    /\ UNCHANGED containerVars
    /\ UNCHANGED callVars

\* lines 104-105: after the sweep of a pattern scenario
PatternScenarioSweepEnd ==
    /\ pc = "pattern_scenarios"
    /\ ~exhausted(si, pattern_scenarios)
    /\ exhausted(pi, patterns)
    /\ exit_early' \in BOOLEAN
    /\ IF exit_early_fires(exit_early', errors)
       THEN /\ pc' = "raised"
            /\ raised' = FoundInvalidPatterns(errors, 105)
            /\ UNCHANGED << si, pi, sweep_failed >>
       ELSE /\ si' = si + 1
            /\ pi' = 1
            /\ sweep_failed' = FALSE
            /\ UNCHANGED << pc, raised >>
    /\ UNCHANGED << errors, fi, called, exclude_function_calls, recorded,
                    patterns_failed >>
    /\ UNCHANGED runInputs
    /\ UNCHANGED buildVars
    /\ UNCHANGED containerVars
    /\ UNCHANGED callVars

\* line 107: the pattern scenarios are exhausted, the function scenarios start
FunctionScenariosStart ==
    /\ pc = "pattern_scenarios"
    /\ exhausted(si, pattern_scenarios)
    /\ pc' = "function_scenarios"
    /\ si' = 1 /\ pi' = 1 /\ fi' = 1
    /\ UNCHANGED << errors, raised, called, exclude_function_calls, recorded,
                    sweep_failed, patterns_failed >>
    /\ UNCHANGED exit_early
    /\ UNCHANGED runInputs
    /\ UNCHANGED buildVars
    /\ UNCHANGED containerVars
    /\ UNCHANGED callVars

\* lines 109-110: an excluded pattern is skipped with all its functions
FunctionScenarioSkipPattern ==
    /\ pc = "function_scenarios"
    /\ ~exhausted(si, function_scenarios)
    /\ ~exhausted(pi, patterns)
    /\ exclude(patterns[pi])
    /\ pi' = pi + 1
    /\ fi' = 1
    /\ UNCHANGED << pc, errors, raised, si, called, exclude_function_calls,
                    recorded, sweep_failed, patterns_failed >>
    /\ UNCHANGED exit_early
    /\ UNCHANGED runInputs
    /\ UNCHANGED buildVars
    /\ UNCHANGED containerVars
    /\ UNCHANGED callVars

\* faulty variant: a scenario that records a violation raises out of the sweep
FunctionScenarioStep_FailFast ==
    /\ pc = "function_scenarios"
    /\ ~exhausted(si, function_scenarios)
    /\ ~exhausted(pi, patterns)
    /\ ~exclude(patterns[pi])
    /\ ~exhausted(fi, relevant_functions(patterns[pi]))
    /\ LET pattern == patterns[pi]
           function == relevant_functions(pattern)[fi]
       IN  /\ exclude_function_calls' =
                 exclude_function_calls \cup {<<pattern, function>>}
           /\ IF exclude_function(pattern, function)
              THEN UNCHANGED << pc, raised, errors, called, recorded,
                                sweep_failed, patterns_failed >>
              ELSE \E adds \in RunOutcomes :
                     /\ errors' = run(errors, adds)
                     /\ called' = Append(called, Call("function", si, pattern, function))
                     /\ recorded' = Record(adds)
                     /\ sweep_failed' = (sweep_failed \/ adds # <<>>)
                     /\ patterns_failed' = patterns_failed
                     /\ pc' = IF adds = <<>> THEN pc ELSE "raised"
                     /\ raised' = IF adds = <<>> THEN raised
                                  ELSE FoundInvalidPatterns(errors', 126)
    /\ fi' = fi + 1
    /\ UNCHANGED << si, pi >>
    /\ UNCHANGED exit_early
    /\ UNCHANGED runInputs
    /\ UNCHANGED buildVars
    /\ UNCHANGED containerVars
    /\ UNCHANGED callVars

\* lines 112-123: one iteration of the loop over pattern.relevant_functions()
FunctionScenarioStep ==
    /\ pc = "function_scenarios"
    /\ ~exhausted(si, function_scenarios)
    /\ ~exhausted(pi, patterns)
    /\ ~exclude(patterns[pi])
    /\ ~exhausted(fi, relevant_functions(patterns[pi]))
    /\ LET pattern == patterns[pi]
           function == relevant_functions(pattern)[fi]
       IN  /\ exclude_function_calls' =
                 exclude_function_calls \cup {<<pattern, function>>}
           /\ IF exclude_function(pattern, function)
              THEN UNCHANGED << errors, called, recorded, sweep_failed, patterns_failed >>
              ELSE \E adds \in RunOutcomes :
                     /\ errors' = run(errors, adds)
                     /\ called' = Append(called, Call("function", si, pattern, function))
                     /\ recorded' = Record(adds)
                     /\ sweep_failed' = (sweep_failed \/ adds # <<>>)
                     /\ patterns_failed' = patterns_failed
    /\ fi' = fi + 1
    /\ UNCHANGED << pc, raised, si, pi >>
    /\ UNCHANGED exit_early
    /\ UNCHANGED runInputs
    /\ UNCHANGED buildVars
    /\ UNCHANGED containerVars
    /\ UNCHANGED callVars

\* line 112: relevant_functions() of the pattern is exhausted
FunctionScenarioNextPattern ==
    /\ pc = "function_scenarios"
    /\ ~exhausted(si, function_scenarios)
    /\ ~exhausted(pi, patterns)
    /\ ~exclude(patterns[pi])
    /\ exhausted(fi, relevant_functions(patterns[pi]))
    /\ pi' = pi + 1
    /\ fi' = 1
    /\ UNCHANGED << pc, errors, raised, si, called, exclude_function_calls,
                    recorded, sweep_failed, patterns_failed >>
    /\ UNCHANGED exit_early
    /\ UNCHANGED runInputs
    /\ UNCHANGED buildVars
    /\ UNCHANGED containerVars
    /\ UNCHANGED callVars

\* lines 125-126: after the sweep of a function scenario
FunctionScenarioSweepEnd ==
    /\ pc = "function_scenarios"
    /\ ~exhausted(si, function_scenarios)
    /\ exhausted(pi, patterns)
    /\ exit_early' \in BOOLEAN
    /\ IF exit_early_fires(exit_early', errors)
       THEN /\ pc' = "raised"
            /\ raised' = FoundInvalidPatterns(errors, 126)
            /\ UNCHANGED << si, pi, fi, sweep_failed >>
       ELSE /\ si' = si + 1
            /\ pi' = 1
            /\ fi' = 1
            /\ sweep_failed' = FALSE
            /\ UNCHANGED << pc, raised >>
    /\ UNCHANGED << errors, called, exclude_function_calls, recorded,
                    patterns_failed >>
    /\ UNCHANGED runInputs
    /\ UNCHANGED buildVars
    /\ UNCHANGED containerVars
    /\ UNCHANGED callVars

\* faulty variant: the check after the last scenario is missing
RunScenariosEnd_NoFinalCheck ==
    /\ pc = "function_scenarios"
    /\ exhausted(si, function_scenarios)
    /\ pc' = "returned"
    /\ UNCHANGED << raised, errors, si, pi, fi, called, exclude_function_calls,
                    recorded, sweep_failed, patterns_failed >>
    /\ UNCHANGED exit_early
    /\ UNCHANGED runInputs
    /\ UNCHANGED buildVars
    /\ UNCHANGED containerVars
    /\ UNCHANGED callVars

\* lines 128-129: every scenario has run
RunScenariosEnd ==
    /\ pc = "function_scenarios"
    /\ exhausted(si, function_scenarios)
    /\ IF any(errors)
       THEN /\ pc' = "raised"
            /\ raised' = FoundInvalidPatterns(errors, 129)
       ELSE /\ pc' = "returned"
            /\ UNCHANGED raised
    /\ UNCHANGED << errors, si, pi, fi, called, exclude_function_calls,
                    recorded, sweep_failed, patterns_failed >>
    /\ UNCHANGED exit_early
    /\ UNCHANGED runInputs
    /\ UNCHANGED buildVars
    /\ UNCHANGED containerVars
    /\ UNCHANGED callVars

NextRun ==
    \/ PatternScenarioStep
    \/ PatternScenarioSweepEnd
    \/ FunctionScenariosStart
    \/ FunctionScenarioSkipPattern
    \/ FunctionScenarioStep
    \/ FunctionScenarioNextPattern
    \/ FunctionScenarioSweepEnd
    \/ RunScenariosEnd

SpecRun == InitRun /\ [][NextRun]_vars

(* ------------------- run_scenarios: what is claimed -------------------- *)

Range(seq) == { seq[i] : i \in DOMAIN seq }

IsPrefix(s, t) == Len(s) <= Len(t) /\ \A i \in DOMAIN s : s[i] = t[i]

RECURSIVE Flatten(_)
Flatten(seqs) == IF seqs = <<>> THEN <<>> ELSE Head(seqs) \o Flatten(Tail(seqs))

\* the patterns a sweep has to visit, in the runner's order
KeptPatterns == SelectSeq(patterns, LAMBDA p : p \notin excluded)

\* the functions of a pattern a sweep has to visit, in the order yielded
KeptFunctions(p) ==
    SelectSeq([k \in 1..nfunctions[p] |-> k], LAMBDA f : f \notin fexcluded)

\* the calls of one full sweep
PatternSweep(s) ==
    LET kept == KeptPatterns
    IN  [i \in DOMAIN kept |-> Call("pattern", s, kept[i], 0)]

FunctionSweepOf(s, p) ==
    LET fs == KeptFunctions(p)
    IN  [j \in DOMAIN fs |-> Call("function", s, p, fs[j])]

FunctionSweep(s) ==
    LET kept == KeptPatterns
    IN  Flatten([i \in DOMAIN kept |-> FunctionSweepOf(s, kept[i])])

\* every call of a run in which no early exit fires
AllSweeps ==
    Flatten([s \in DOMAIN pattern_scenarios |-> PatternSweep(s)])
      \o Flatten([s \in DOMAIN function_scenarios |-> FunctionSweep(s)])

Running == pc \in {"pattern_scenarios", "function_scenarios"}

\* the sweep of the scenario at si has visited every pattern
SweepFinished ==
    \/ pc = "pattern_scenarios" /\ si <= Len(pattern_scenarios) /\ pi > Len(patterns)
    \/ pc = "function_scenarios" /\ si <= Len(function_scenarios) /\ pi > Len(patterns)

FunctionCalls == { c \in Range(called) : c.kind = "function" }
PatternCalls == { c \in Range(called) : c.kind = "pattern" }

RaisedEarly == pc = "raised" /\ raised.line \in {105, 126}

\* the scenarios whose sweep has started
StartedPatternScenarios ==
    IF pc = "pattern_scenarios" \/ (pc = "raised" /\ raised.line = 105)
    THEN { s \in DOMAIN pattern_scenarios : s <= si }
    ELSE DOMAIN pattern_scenarios

StartedFunctionScenarios ==
    IF pc = "pattern_scenarios" \/ (pc = "raised" /\ raised.line = 105)
    THEN {}
    ELSE IF pc = "function_scenarios" \/ (pc = "raised" /\ raised.line = 126)
    THEN { s \in DOMAIN function_scenarios : s <= si }
    ELSE DOMAIN function_scenarios

C2_SweepNeverCutShort ==
    pc = "raised" =>
        LET made == Range(called)
        IN  /\ \A s \in StartedPatternScenarios :
                  Range(PatternSweep(s)) \subseteq made
            /\ \A s \in StartedFunctionScenarios :
                  Range(FunctionSweep(s)) \subseteq made
            /\ raised.line = 126 => \A c \in FunctionCalls : c.scenario <= si

\* the first function scenario recorded two violations in a sweep of at least
\* two calls (so one of them before the sweep's last call) and then exited early
C2_Witness ==
    /\ pc = "raised" /\ raised.line = 126 /\ si = 1
    /\ si < Len(function_scenarios)
    /\ ~patterns_failed
    /\ NumRecorded >= 2
    /\ Len(FunctionSweep(1)) >= 2

\* C3: when a pattern scenario's early exit fires (its sweep is over, it has
\* exit_early and a violation has been recorded), the call raises the batch
\* failure there and does nothing more: no later pattern scenario and no
\* function scenario has run or runs, and the failure holds exactly the
\* violations recorded so far, with their counts.
C3_PatternEarlyExitSkipsTheRest ==
    [][ /\ ( /\ pc = "pattern_scenarios"
             /\ si <= Len(pattern_scenarios)
             /\ pi > Len(patterns)
             /\ exit_early'
             /\ NumRecorded > 0 ) =>
            /\ pc' = "raised"
            /\ raised'.exc = "FoundInvalidPatterns"
            /\ called' = called
            /\ \A c \in Range(called) : c.kind = "pattern" /\ c.scenario <= si
            /\ exclude_function_calls' = {}
            /\ { kv[1] : kv \in Range(raised'.errors.by_error_str) }
                 = { s \in ErrorStrs : recorded[s] > 0 }
            /\ \A kv \in Range(raised'.errors.by_error_str) :
                  kv[2] = recorded[kv[1]]
            /\ { Str(e) : e \in Range(Iter(raised'.errors)) }
                 = { s \in ErrorStrs : recorded[s] > 0 }
        /\ pc = "raised" => UNCHANGED vars
      ]_vars

\* the first of several pattern scenarios exited early
C3_Witness ==
    /\ pc = "raised" /\ raised.line = 105
    /\ si = 1 /\ si < Len(pattern_scenarios)
    /\ Len(function_scenarios) > 0
    /\ KeptPatterns # <<>>
    /\ NumRecorded >= 2

\* C4: if a violation has been recorded once all pattern scenarios have run,
\* run_scenarios raises there, so no function scenario is ever run after a
\* pattern scenario recorded a violation.
C4_RaisesBeforeFunctionScenarios ==
    patterns_failed => pc # "function_scenarios" /\ FunctionCalls = {}

\* C5: run_scenarios raises early after a sweep exactly when the scenario has
\* exit_early and recorded a violation during its own sweep.
C5_EarlyExitIffScenarioItselfFailed ==
    [][ SweepFinished =>
          ((pc' = "raised") <=> (exit_early' /\ sweep_failed)) ]_vars

\* c1 comes before c2 in the order claimed: pattern scenarios before function
\* scenarios, then the scenarios' order, the runner's pattern order and the
\* order in which relevant_functions() yields
Before(c1, c2) ==
    LET k1 == IF c1.kind = "pattern" THEN 0 ELSE 1
        k2 == IF c2.kind = "pattern" THEN 0 ELSE 1
    IN  \/ k1 < k2
        \/ k1 = k2 /\ c1.scenario < c2.scenario
        \/ k1 = k2 /\ c1.scenario = c2.scenario /\ c1.pattern < c2.pattern
        \/ /\ k1 = k2 /\ c1.scenario = c2.scenario /\ c1.pattern = c2.pattern
           /\ c1.function < c2.function

\* C6: each call comes after the one before it in the order claimed (so no
\* combination is called twice), and whenever a sweep has just finished or
\* the call has ended, the calls made are exactly the first calls of: the
\* pattern scenarios' sweeps followed by the function scenarios' sweeps;
\* a call that ends without early exit has made all of them.
C6_CallsInOrder ==
    /\ Len(called) >= 2 => Before(called[Len(called) - 1], called[Len(called)])
    /\ pc = "pattern_scenarios" =>
          (called # <<>> => called[Len(called)].kind = "pattern")
    /\ (SweepFinished \/ ~Running) => IsPrefix(called, AllSweeps)
    /\ (pc = "returned" \/ (pc = "raised" /\ raised.line = 129)) =>
          called = AllSweeps

\* a complete run over two patterns with two functions each
C6_Witness ==
    /\ pc \in {"returned", "raised"}
    /\ called = AllSweeps
    /\ Len(KeptPatterns) >= 2
    /\ \A i \in DOMAIN KeptPatterns : Len(KeptFunctions(KeptPatterns[i])) >= 2

\* C7: the call ends by returning, iff no violation was recorded, or by
\* raising one FoundInvalidPatterns with a non-empty container; it never
\* leaves a sweep half-way and never gets stuck.
C7_ReturnsOrRaisesNonEmpty ==
    /\ pc \in {"pattern_scenarios", "function_scenarios", "returned", "raised"}
    /\ pc = "returned" => NumRecorded = 0 /\ raised = NoException
    /\ pc = "raised" =>
          /\ NumRecorded > 0
          /\ raised.exc = "FoundInvalidPatterns"
          /\ raised.errors = errors
          /\ raised.errors.by_error_str # <<>>
          /\ Iter(raised.errors) # <<>>
          /\ pi > Len(patterns) \/ raised.line = 129
    /\ Running => raised = NoException /\ ENABLED NextRun

\* the run raised at its end, with violations of both phases
C7_Witness ==
    /\ pc = "raised" /\ raised.line = 129
    /\ patterns_failed
    /\ NumRecorded >= 2

\* C8: an excluded pattern is passed to no scenario and its exclude_function
\* is never called; an excluded function is passed to no function scenario;
\* whenever a sweep has just finished or the call has ended, every scenario
\* that has run has been passed every other pattern and function.
C8_ExclusionsAreHonoured ==
    LET made == Range(called)
    IN  /\ \A c \in made : c.pattern \notin excluded
        /\ \A c \in made : c.kind = "function" => c.function \notin fexcluded
        /\ \A pf \in exclude_function_calls : pf[1] \notin excluded
        /\ (SweepFinished \/ ~Running) =>
              /\ \A s \in StartedPatternScenarios :
                    Range(PatternSweep(s)) \subseteq made
              /\ \A s \in StartedFunctionScenarios :
                    Range(FunctionSweep(s)) \subseteq made

\* a finished run with an excluded pattern (that has functions), an excluded
\* function and a function that was passed
C8_Witness ==
    /\ pc \in {"returned", "raised"}
    /\ excluded # {} /\ KeptPatterns # <<>>
    /\ \E p \in Range(KeptPatterns) :
          /\ \E f \in 1..nfunctions[p] : f \in fexcluded
          /\ KeptFunctions(p) # <<>>
    /\ FunctionCalls # {}

(* ----------------------- from_raw_patterns ----------------------------- *)

\* what pattern_maker(raw_pattern=...) does for a raw route: it returns a
\* pattern, raises an InvalidPattern, or raises another exception
MakerOutcomes ==
    { [kind |-> "pattern", error |-> [cls |-> "None", value |-> ""]] }
      \cup { [kind |-> "InvalidPattern", error |-> e] : e \in ErrorPool }
      \cup { [kind |-> "Exception",
              error |-> [cls |-> "AttributeError", value |-> "two"]] }

\* faulty variant: `except Exception`
caught_Everything(made) == made.kind # "pattern"

\* `except _errors.InvalidPattern`
caught(made) == made.kind = "InvalidPattern"

\* faulty variant: the excluder's answer is not used
raw_pattern_excluder_Ignored(i) == FALSE

\* `raw_pattern_excluder is not None and raw_pattern_excluder(raw_pattern=...)`
raw_pattern_excluder(i) == has_excluder /\ raw_patterns[i].excluded

runVars == << excluded, nfunctions, fexcluded, pattern_scenarios,
              function_scenarios, exit_early, si, pi, fi, called,
              exclude_function_calls, recorded, sweep_failed, patterns_failed >>

\* the first line of from_raw_patterns
InitBuild ==
    /\ pc = "from_raw_patterns"
    /\ errors = ErrorContainer
    /\ patterns = <<>>
    /\ raised = NoException
    /\ raw_patterns \in [1..MaxRawPatterns -> [excluded : BOOLEAN, made : MakerOutcomes]]
    /\ has_excluder \in BOOLEAN
    /\ ri = 1
    /\ build_called = <<>>
    /\ excluded = {}
    /\ nfunctions = <<>>
    /\ fexcluded = {}
    /\ pattern_scenarios = <<>>
    /\ function_scenarios = <<>>
    /\ exit_early = FALSE
    /\ si = 1 /\ pi = 1 /\ fi = 1
    /\ called = <<>>
    /\ exclude_function_calls = {}
    /\ recorded = [s \in ErrorStrs |-> 0]
    /\ sweep_failed = FALSE
    /\ patterns_failed = FALSE
    /\ added = <<>>
    /\ yielded = NothingYielded
    /\ NoCall

\* lines 55-64: one iteration of the loop over raw_patterns
FromRawPatternsStep ==
    /\ pc = "from_raw_patterns"
    /\ ~exhausted(ri, raw_patterns)
    /\ LET made == raw_patterns[ri].made
           asked == IF has_excluder THEN << <<"excluder", ri>> >> ELSE <<>>
       IN  IF raw_pattern_excluder(ri)
           THEN /\ build_called' = build_called \o asked
                /\ ri' = ri + 1
                /\ UNCHANGED << pc, errors, patterns, raised >>
           ELSE /\ build_called' = build_called \o asked \o << <<"pattern_maker", ri>> >>
                /\ IF made.kind = "pattern"
                   THEN /\ patterns' = Append(patterns, ri)
                        /\ ri' = ri + 1
                        /\ UNCHANGED << pc, errors, raised >>
                   ELSE IF caught(made)
                   THEN /\ errors' = add(errors, made.error)
                        /\ ri' = ri + 1
                        /\ UNCHANGED << pc, patterns, raised >>
                   ELSE /\ pc' = "raised"
                        /\ raised' = [exc |-> made.error.cls, route |-> ri]
                        /\ UNCHANGED << errors, patterns, ri >>
    /\ UNCHANGED << raw_patterns, has_excluder >>
    /\ UNCHANGED runVars
    /\ UNCHANGED containerVars
    /\ UNCHANGED callVars

\* faulty variant: the recorded violations are never raised
FromRawPatternsEnd_AlwaysReturns ==
    /\ pc = "from_raw_patterns"
    /\ exhausted(ri, raw_patterns)
    /\ pc' = "returned"
    /\ UNCHANGED << raised, errors, patterns, raw_patterns, has_excluder, ri,
                    build_called >>
    /\ UNCHANGED runVars
    /\ UNCHANGED containerVars
    /\ UNCHANGED callVars

\* lines 66-69: every raw route has been visited
FromRawPatternsEnd ==
    /\ pc = "from_raw_patterns"
    /\ exhausted(ri, raw_patterns)
    /\ IF any(errors)
       THEN /\ pc' = "raised"
            /\ raised' = FoundInvalidPatterns(errors, 67)
       ELSE /\ pc' = "returned"
            /\ UNCHANGED raised
    /\ UNCHANGED << errors, patterns, raw_patterns, has_excluder, ri, build_called >>
    /\ UNCHANGED runVars
    /\ UNCHANGED containerVars
    /\ UNCHANGED callVars

NextBuild ==
    \/ FromRawPatternsStep
    \/ FromRawPatternsEnd

SpecBuild == InitBuild /\ [][NextBuild]_vars

(* ------------------ from_raw_patterns: what is claimed ----------------- *)

\* the raw routes the excluder lets through
Visited == { i \in DOMAIN raw_patterns : ~(has_excluder /\ raw_patterns[i].excluded) }

\* the visited routes for which the pattern-maker raises something else
\* than an InvalidPattern
Breaking == { i \in Visited : raw_patterns[i].made.kind = "Exception" }

\* the InvalidPattern violations of the routes 1..n, in route order
RECURSIVE Encountered(_)
Encountered(n) ==
    IF n = 0 THEN <<>>
    ELSE Encountered(n - 1) \o
           (IF n \in Visited /\ raw_patterns[n].made.kind = "InvalidPattern"
            THEN << raw_patterns[n].made.error >> ELSE <<>>)

\* a sequence of violations without those whose rendered string came earlier
FirstSeen(es) ==
    SelectSeq([i \in DOMAIN es |->
                 IF \E j \in 1..(i - 1) : Str(es[j]) = Str(es[i])
                 THEN [cls |-> "None", value |-> ""] ELSE es[i]],
              LAMBDA e : e.cls # "None")

Occurrences(es, s) == Cardinality({ i \in DOMAIN es : Str(es[i]) = s })

MakerCalls == SelectSeq(build_called, LAMBDA c : c[1] = "pattern_maker")

\* C9: when the pattern-maker raises only InvalidPattern, every route the
\* excluder lets through is passed to the pattern-maker, also after a
\* violation; then FoundInvalidPatterns is raised with the violations in
\* encounter order if there is one, and the runner is returned otherwise.
C9_InvalidPatternsAreCollected ==
    (Breaking = {} /\ pc # "from_raw_patterns") =>
        /\ ri = Len(raw_patterns) + 1
        /\ { c[2] : c \in Range(MakerCalls) } = Visited
        /\ \A i, j \in DOMAIN MakerCalls : i < j => MakerCalls[i][2] < MakerCalls[j][2]
        /\ Encountered(Len(raw_patterns)) # <<>> =>
              /\ pc = "raised"
              /\ raised.exc = "FoundInvalidPatterns"
              /\ Iter(raised.errors) = FirstSeen(Encountered(Len(raw_patterns)))
              /\ \A kv \in Range(raised.errors.by_error_str) :
                    kv[2] = Occurrences(Encountered(Len(raw_patterns)), kv[1])
        /\ Encountered(Len(raw_patterns)) = <<>> =>
              /\ pc = "returned"
              /\ raised = NoException

\* the first route is invalid, a later route is made into a pattern, and the
\* batch failure carries two violations
C9_Witness ==
    /\ pc = "raised" /\ raised.exc = "FoundInvalidPatterns"
    /\ Breaking = {}
    /\ 1 \in Visited /\ raw_patterns[1].made.kind = "InvalidPattern"
    /\ patterns # <<>>
    /\ Len(Iter(raised.errors)) >= 2

\* C10: when the pattern-maker raises something else than an InvalidPattern,
\* that exception leaves from_raw_patterns at once: no later route is passed
\* to the excluder or the pattern-maker, and no FoundInvalidPatterns is
\* raised, also when violations were recorded for earlier routes.
C10_OtherExceptionsPropagate ==
    /\ (Breaking # {} /\ pc # "from_raw_patterns") =>
          LET first == CHOOSE i \in Breaking : \A j \in Breaking : i <= j
          IN  /\ pc = "raised"
              /\ raised = [exc |-> raw_patterns[first].made.error.cls, route |-> first]
              /\ \A c \in Range(build_called) : c[2] <= first
    /\ (pc = "raised" /\ raised.exc # "FoundInvalidPatterns") =>
          /\ ri \in Breaking
          /\ raised.route = ri
          /\ build_called[Len(build_called)] = <<"pattern_maker", ri>>
          /\ \A c \in Range(build_called) : c[2] <= ri
    /\ (pc = "from_raw_patterns" /\ \E i \in Breaking : i < ri) => FALSE

\* another exception propagated after a violation was recorded, with a route
\* left unvisited
C10_Witness ==
    /\ pc = "raised" /\ raised.exc = "AttributeError"
    /\ errors.by_error_str # <<>>
    /\ ri < Len(raw_patterns)
    /\ has_excluder

\* the excluder / pattern-maker calls routes 1..n give rise to, in order
RECURSIVE ExpectedBuildCalls(_)
ExpectedBuildCalls(n) ==
    IF n = 0 THEN <<>>
    ELSE ExpectedBuildCalls(n - 1)
           \o (IF has_excluder THEN << <<"excluder", n>> >> ELSE <<>>)
           \o (IF n \in Visited THEN << <<"pattern_maker", n>> >> ELSE <<>>)

\* the routes among 1..n the pattern-maker returns a pattern for, in order
MadePatterns(n) ==
    SelectSeq([i \in 1..n |-> i],
              LAMBDA i : i \in Visited /\ raw_patterns[i].made.kind = "pattern")

\* C11: the raw routes are visited in input order; for each route the
\* excluder (when given) is called first, and the pattern-maker is called
\* only when the excluder returned false; the list being built holds the
\* patterns the pattern-maker returned, in input order, and nothing for an
\* excluded route; on success that list is what the runner holds.
C11_RoutesVisitedInOrder ==
    LET done == IF pc = "raised" /\ raised.exc # "FoundInvalidPatterns"
                THEN ri ELSE ri - 1
    IN  /\ build_called = ExpectedBuildCalls(done)
        /\ patterns = MadePatterns(ri - 1)
        /\ pc = "returned" =>
              /\ ri = Len(raw_patterns) + 1
              /\ patterns = MadePatterns(Len(raw_patterns))
              /\ \A i \in DOMAIN raw_patterns :
                    (has_excluder /\ raw_patterns[i].excluded)
                        => i \notin Range(patterns)

\* a runner was returned: an excluder was given, it excluded a route the
\* pattern-maker would have failed on, and two routes were made into patterns
C11_Witness ==
    /\ pc = "returned"
    /\ has_excluder
    /\ \E i \in DOMAIN raw_patterns :
          raw_patterns[i].excluded /\ raw_patterns[i].made.kind # "pattern"
    /\ Len(patterns) >= 2

(* ---------------------- an ErrorContainer on its own -------------------- *)

\* number of add calls made on one container
MaxAdds == 4

\* the violations passed to add: those of ErrorPool and one with a third string
AddedErrors == ErrorPool \cup { [cls |-> "ErrorA", value |-> "c"] }

\* class names in the order Python compares strings (code points)
ClassNames == << "ErrorA", "ErrorB", "str" >>

\* name1 < name2 on strings
NameLess(name1, name2) ==
    \E i, j \in DOMAIN ClassNames :
        ClassNames[i] = name1 /\ ClassNames[j] = name2 /\ i < j

\* faulty variant: the name of the class of the violation stored for the string
class_name_OfStored(container, x) == Get(container.error_by_str, x).cls

\* pair[0].__class__.__name__ : pair[0] is a key of _by_error_str, a str
class_name(container, x) == "str"

\* the sort key `(-pair[1], pair[0].__class__.__name__)`
key(container, pair) == << 0 - pair[2], class_name(container, pair[1]) >>

\* tuple comparison k1 < k2
KeyLess(k1, k2) == k1[1] < k2[1] \/ (k1[1] = k2[1] /\ NameLess(k1[2], k2[2]))

\* sorted(items, key=...): stable, an item goes after the items with a smaller
\* key and after the earlier items with an equal key
sorted(container, items) ==
    LET k(i) == key(container, items[i])
        position(i) ==
            Cardinality({ j \in DOMAIN items :
                            \/ KeyLess(k(j), k(i))
                            \/ (~KeyLess(k(i), k(j)) /\ j < i) }) + 1
    IN  [ p \in DOMAIN items |->
            items[CHOOSE i \in DOMAIN items : position(i) = p] ]

\* ErrorContainer.by_most_repeated
by_most_repeated(container) ==
    LET pairs == sorted(container, container.by_error_str)
    IN  [ i \in DOMAIN pairs |-> pairs[i][1] ]

\* a new ErrorContainer, nothing added
InitContainer ==
    /\ pc = "container"
    /\ errors = ErrorContainer
    /\ added = <<>>
    /\ yielded = NothingYielded
    /\ NoCall
    /\ patterns = <<>>
    /\ raised = NoException
    /\ excluded = {}
    /\ nfunctions = <<>>
    /\ fexcluded = {}
    /\ pattern_scenarios = <<>>
    /\ function_scenarios = <<>>
    /\ exit_early = FALSE
    /\ si = 1 /\ pi = 1 /\ fi = 1
    /\ called = <<>>
    /\ exclude_function_calls = {}
    /\ recorded = [s \in ErrorStrs |-> 0]
    /\ sweep_failed = FALSE
    /\ patterns_failed = FALSE
    /\ raw_patterns = <<>>
    /\ has_excluder = FALSE
    /\ ri = 1
    /\ build_called = <<>>

notContainerVars == << pc, patterns, raised, excluded, nfunctions, fexcluded,
                       pattern_scenarios, function_scenarios, exit_early, si, pi,
                       fi, called, exclude_function_calls, recorded, sweep_failed,
                       patterns_failed, raw_patterns, has_excluder, ri,
                       build_called, args, result >>

\* errors.add(error)
Add ==
    /\ pc = "container"
    /\ Len(added) < MaxAdds
    /\ \E error \in AddedErrors :
          /\ errors' = add(errors, error)
          /\ added' = Append(added, error)
    /\ yielded' = NothingYielded
    /\ UNCHANGED notContainerVars

\* list(errors) / list(errors.errors)
ListErrors ==
    /\ pc = "container"
    /\ yielded' = [kind |-> "errors", value |-> Iter(errors)]
    /\ UNCHANGED << errors, added >>
    /\ UNCHANGED notContainerVars

\* list(errors.by_most_repeated)
ListByMostRepeated ==
    /\ pc = "container"
    /\ yielded' = [kind |-> "by_most_repeated", value |-> by_most_repeated(errors)]
    /\ UNCHANGED << errors, added >>
    /\ UNCHANGED notContainerVars

NextContainer ==
    \/ Add
    \/ ListErrors
    \/ ListByMostRepeated

SpecContainer == InitContainer /\ [][NextContainer]_vars

(* ------------------- ErrorContainer: what is claimed ------------------- *)

\* the rendered strings of the violations added so far
AddedStrs == { Str(added[i]) : i \in DOMAIN added }

\* the strings the container stores, and the count it stores for a string
StoredStrs(container) ==
    { container.by_error_str[i][1] : i \in DOMAIN container.by_error_str }

StoredCount(container, s) ==
    IF s \in StoredStrs(container) THEN Get(container.by_error_str, s) ELSE 0

\* the position in `added` of the first violation rendered as s
FirstAdded(s) ==
    CHOOSE i \in DOMAIN added :
        Str(added[i]) = s /\ \A j \in DOMAIN added : Str(added[j]) = s => i <= j

\* C12: after any sequence of add calls the container iterates as many
\* violations as distinct rendered strings were added, and stores for each
\* string the number of add calls made with it; no step removes a stored
\* string or lowers a count.
C12_CountsPerRenderedString ==
    /\ [](/\ Len(Iter(errors)) = Cardinality(AddedStrs)
          /\ yielded.kind = "errors" => Len(yielded.value) = Cardinality(AddedStrs)
          /\ StoredStrs(errors) = AddedStrs
          /\ \A s \in AddedStrs : StoredCount(errors, s) = Occurrences(added, s))
    /\ [][/\ StoredStrs(errors) \subseteq StoredStrs(errors')
          /\ \A s \in StoredStrs(errors) :
                StoredCount(errors', s) >= StoredCount(errors, s)]_vars

\* the container was read after four adds, three of them with one string
C12_Witness ==
    /\ yielded.kind = "errors"
    /\ Len(added) = MaxAdds
    /\ Cardinality(AddedStrs) = 2
    /\ \E s \in AddedStrs : StoredCount(errors, s) = 3

\* C13: iterating the container yields one violation per distinct rendered
\* string, in the order the strings were first added, and each is the first
\* instance added with its string; an add of a violation whose string is
\* already stored, of whatever class, leaves the iterated instances as they
\* were and raises that string's count by one.
C13_FirstSeenWins ==
    /\ [](/\ Iter(errors) = FirstSeen(added)
          /\ yielded.kind = "errors" => yielded.value = FirstSeen(added))
    /\ [][(/\ Len(added') = Len(added) + 1
           /\ Str(added'[Len(added')]) \in AddedStrs) =>
              /\ Iter(errors') = Iter(errors)
              /\ \A s \in AddedStrs :
                    StoredCount(errors', s) =
                        StoredCount(errors, s)
                          + (IF s = Str(added'[Len(added')]) THEN 1 ELSE 0)]_vars

\* the container was read after a violation of another class with an
\* already stored string was added, and after a second string
C13_Witness ==
    /\ yielded.kind = "errors"
    /\ Len(yielded.value) = 2
    /\ \E i, j \in DOMAIN added :
          /\ i < j
          /\ Str(added[i]) = Str(added[j])
          /\ added[i].cls # added[j].cls
          /\ \E k \in DOMAIN added : j < k /\ Str(added[k]) # Str(added[j])

\* C14: by_most_repeated yields the strings by descending count and, among
\* strings of equal count, by the class name of the violation stored for the
\* string (the first one added with it).
C14_TiesOrderedByKindName ==
    yielded.kind = "by_most_repeated" =>
        \A i, j \in DOMAIN yielded.value :
            i < j =>
                LET si_ == yielded.value[i]
                    sj_ == yielded.value[j]
                IN  \/ Occurrences(added, si_) > Occurrences(added, sj_)
                    \/ /\ Occurrences(added, si_) = Occurrences(added, sj_)
                       /\ ~NameLess(added[FirstAdded(sj_)].cls,
                                    added[FirstAdded(si_)].cls)

\* C15: by_most_repeated yields each distinct rendered string exactly once,
\* a string with a greater count before a string with a smaller count, and
\* strings of equal count in the order in which they were first added.
C15_MostRepeatedFirstThenFirstAdded ==
    LET Ordered(r) ==
            /\ Len(r) = Cardinality(AddedStrs)
            /\ { r[i] : i \in DOMAIN r } = AddedStrs
            /\ \A i, j \in DOMAIN r :
                  i < j =>
                      \/ Occurrences(added, r[i]) > Occurrences(added, r[j])
                      \/ /\ Occurrences(added, r[i]) = Occurrences(added, r[j])
                         /\ FirstAdded(r[i]) < FirstAdded(r[j])
    IN  /\ Ordered(by_most_repeated(errors))
        /\ yielded.kind = "by_most_repeated" => Ordered(yielded.value)

\* by_most_repeated was read with three strings stored: the last one added
\* has the greatest count, and the other two have equal counts with the
\* class names of their violations in descending order
C15_Witness ==
    /\ yielded.kind = "by_most_repeated"
    /\ Len(yielded.value) = 3
    /\ FirstAdded(yielded.value[1]) > FirstAdded(yielded.value[3])
    /\ Occurrences(added, yielded.value[2]) = Occurrences(added, yielded.value[3])
    /\ NameLess(added[FirstAdded(yielded.value[3])].cls,
                added[FirstAdded(yielded.value[2])].cls)

(* --------------- ensure_raw_pattern_is_generic_view -------------------- *)

\* most parts of one raw route, and most regex groups of one part
MaxParts == 2
MaxGroups == 2

\* the variables of the runner and of the container, when neither is used
NoRunner ==
    /\ errors = ErrorContainer
    /\ patterns = <<>>
    /\ raised = NoException
    /\ excluded = {}
    /\ nfunctions = <<>>
    /\ fexcluded = {}
    /\ pattern_scenarios = <<>>
    /\ function_scenarios = <<>>
    /\ exit_early = FALSE
    /\ si = 1 /\ pi = 1 /\ fi = 1
    /\ called = <<>>
    /\ exclude_function_calls = {}
    /\ recorded = [s \in ErrorStrs |-> 0]
    /\ sweep_failed = FALSE
    /\ patterns_failed = FALSE
    /\ raw_patterns = <<>>
    /\ has_excluder = FALSE
    /\ ri = 1
    /\ build_called = <<>>
    /\ added = <<>>
    /\ yielded = NothingYielded

notScenarioVars == << patterns, raised, excluded, nfunctions, fexcluded,
                      pattern_scenarios, function_scenarios, exit_early, si, pi,
                      fi, called, exclude_function_calls, recorded, sweep_failed,
                      patterns_failed, raw_patterns, has_excluder, ri,
                      build_called, added, yielded >>

notCallVars == << errors, notScenarioVars >>

\* the classes a callback's view_class may be, each with its __mro__
MRO ==
    [ View |-> << "View", "object" >>,
      MyView |-> << "MyView", "View", "object" >>,
      NotAView |-> << "NotAView", "object" >> ]

\* issubclass(cls, base)
issubclass(cls, base) == \E i \in DOMAIN MRO[cls] : MRO[cls][i] = base

\* RawPatternPart: `groups` counts named and unnamed groups, `captured` holds
\* the named ones (here numbered), `where` says where the part is defined
RawPatternParts ==
    UNION { [ groups : {g}, captured : { 1..n : n \in 0..g } ] : g \in 0..MaxGroups }

\* RawPattern: the i-th part is defined at Where i; the route's own Where is
\* that of its last part (0 for a route without parts)
RawPatterns ==
    [ view_class : {"None"} \cup DOMAIN MRO,
      parts : UNION { [1..n -> RawPatternParts] : n \in 0..MaxParts } ]

where(raw_pattern) == Len(raw_pattern.parts)

\* faulty variant: one unnamed group is enough
unnamed_groups_only_AnyUnnamed(part) == part.groups > Cardinality(part.captured)

\* `part.groups and len(part.captured) == 0`
unnamed_groups_only(part) == part.groups # 0 /\ Cardinality(part.captured) = 0

\* the loop of lines 56-57 from part i on
RECURSIVE check_parts(_, _)
check_parts(raw_pattern, i) ==
    IF i > Len(raw_pattern.parts)
    THEN [kind |-> "returned", value |-> raw_pattern.view_class]
    ELSE IF unnamed_groups_only(raw_pattern.parts[i])
    THEN [kind |-> "raised", exc |-> "NoPositionalArguments", where |-> i]
    ELSE check_parts(raw_pattern, i + 1)

\* faulty variant: the parts are checked before the view class
ensure_raw_pattern_is_generic_view_PartsFirst(raw_pattern) ==
    LET checked == check_parts(raw_pattern, 1)
    IN  IF checked.kind = "raised" THEN checked
        ELSE IF /\ raw_pattern.view_class # "None"
                /\ ~issubclass(raw_pattern.view_class, "View")
        THEN [kind |-> "raised", exc |-> "MustSubclassDjangoGenericView",
              where |-> where(raw_pattern)]
        ELSE checked

\* ensure_raw_pattern_is_generic_view(raw_pattern=...)
ensure_raw_pattern_is_generic_view(raw_pattern) ==
    IF /\ raw_pattern.view_class # "None"
       /\ ~issubclass(raw_pattern.view_class, "View")
    THEN [kind |-> "raised", exc |-> "MustSubclassDjangoGenericView",
          where |-> where(raw_pattern)]
    ELSE check_parts(raw_pattern, 1)

InitGate ==
    /\ pc = "ensure_raw_pattern_is_generic_view"
    /\ args \in [ raw_pattern : RawPatterns ]
    /\ result = NoResult
    /\ NoRunner

EnsureRawPatternIsGenericView ==
    /\ pc = "ensure_raw_pattern_is_generic_view"
    /\ result = NoResult
    /\ result' = ensure_raw_pattern_is_generic_view(args.raw_pattern)
    /\ UNCHANGED << pc, args >>
    /\ UNCHANGED notCallVars

NextGate == EnsureRawPatternIsGenericView

SpecGate == InitGate /\ [][NextGate]_vars

\* the parts of the route with groups of which none is named
UnnamedParts ==
    { i \in DOMAIN args.raw_pattern.parts :
        /\ args.raw_pattern.parts[i].groups > 0
        /\ args.raw_pattern.parts[i].captured = {} }

\* the route has a handler class that is not a django generic View subclass
NotABaseHandler == args.raw_pattern.view_class \in {"NotAView"}

\* C16: a route whose handler class is present and is not a generic View
\* subclass fails with MustSubclassDjangoGenericView carrying the route's own
\* Where, also when a part has only unnamed groups; otherwise the first part,
\* in part order, with groups and no named capture fails with
\* NoPositionalArguments carrying that part's Where; otherwise the handler
\* class is returned.
C16_GateChecksInOrder ==
    (pc = "ensure_raw_pattern_is_generic_view" /\ result # NoResult) =>
        IF NotABaseHandler
        THEN result = [kind |-> "raised", exc |-> "MustSubclassDjangoGenericView",
                       where |-> Len(args.raw_pattern.parts)]
        ELSE IF UnnamedParts # {}
        THEN result = [kind |-> "raised", exc |-> "NoPositionalArguments",
                       where |-> CHOOSE i \in UnnamedParts :
                                    \A j \in UnnamedParts : i <= j]
        ELSE result = [kind |-> "returned", value |-> args.raw_pattern.view_class]

\* the gate failed on the handler class of a route whose first part has an
\* unnamed group only
C16_Witness ==
    /\ pc = "ensure_raw_pattern_is_generic_view"
    /\ result # NoResult /\ result.kind = "raised"
    /\ result.exc = "MustSubclassDjangoGenericView"
    /\ Len(args.raw_pattern.parts) = 2
    /\ 1 \in UnnamedParts

GateRan == pc = "ensure_raw_pattern_is_generic_view" /\ result # NoResult

\* the parts of the route with more groups than named captures
PartsWithUnnamedGroup ==
    { i \in DOMAIN args.raw_pattern.parts :
        args.raw_pattern.parts[i].groups
            > Cardinality(args.raw_pattern.parts[i].captured) }

\* C27 as stated: a route with a part that has an unnamed group is rejected
\* by the gate, also when that part has a named capture.
C27_AnyUnnamedGroupRejected ==
    (GateRan /\ PartsWithUnnamedGroup # {}) => result.kind = "raised"

\* C27, amended: the gate rejects a part for its groups only when the part
\* has groups and not one named capture; a route whose handler class passes
\* and whose parts with groups each have a named capture is let through,
\* unnamed groups or not.
C27_OnlyAllUnnamedPartsRejected ==
    GateRan =>
        /\ (result.kind = "raised" /\ result.exc = "NoPositionalArguments") =>
              /\ result.where \in DOMAIN args.raw_pattern.parts
              /\ args.raw_pattern.parts[result.where].groups > 0
              /\ args.raw_pattern.parts[result.where].captured = {}
        /\ ( /\ ~NotABaseHandler
             /\ \A i \in DOMAIN args.raw_pattern.parts :
                   args.raw_pattern.parts[i].groups > 0
                       => args.raw_pattern.parts[i].captured # {} )
              => result.kind = "returned"
        /\ ( /\ ~NotABaseHandler
             /\ \E i \in DOMAIN args.raw_pattern.parts :
                   /\ args.raw_pattern.parts[i].groups > 0
                   /\ args.raw_pattern.parts[i].captured = {} )
              => (result.kind = "raised" /\ result.exc = "NoPositionalArguments")

\* the gate let through a route of a generic View whose only part has two
\* groups of which one is named
C27_Witness ==
    /\ GateRan
    /\ result.kind = "returned"
    /\ args.raw_pattern.view_class = "MyView"
    /\ Len(args.raw_pattern.parts) = 1
    /\ args.raw_pattern.parts[1].groups = 2
    /\ Cardinality(args.raw_pattern.parts[1].captured) = 1

(* ------------------------- FunctionArg.matches -------------------------- *)

\* most members of a union annotation
MaxUnion == 2

\* annotations that are not unions: typing.get_origin gives None for them
PlainTypes == { "Any", "object", "int", "str" }

Plain(name) == [origin |-> "None", name |-> name, args |-> {}]

\* X | Y and typing.Union[X, Y]: equal whatever the order of the members
Union(members) == [origin |-> "Union", name |-> "Union", args |-> members]

Annotations ==
    { Plain(name) : name \in PlainTypes }
      \cup { Union(members) :
                members \in { m \in SUBSET PlainTypes :
                                Cardinality(m) > 1 /\ Cardinality(m) <= MaxUnion } }

\* typing.get_origin(annotation) in (types.UnionType, typing.Union)
is_union(annotation) == annotation.origin = "Union"

\* lines 28-32 and 34-38: the members of a union, or the annotation itself
members_of(annotation) ==
    IF is_union(annotation) THEN annotation.args ELSE { annotation.name }

\* faulty variant: the two member lists must be equal
matches_Equality(self, annotation) ==
    \/ self.annotation = Plain("Any")
    \/ (self.is_variable_keywords /\ self.annotation = Plain("object"))
    \/ members_of(annotation) = members_of(self.annotation)

\* FunctionArg.matches(annotation)
matches(self, annotation) ==
    \/ self.annotation = Plain("Any")
    \/ (self.is_variable_keywords /\ self.annotation = Plain("object"))
    \/ LET accepts == members_of(self.annotation)
           requires == members_of(annotation)
       IN  \A req \in requires : req \in accepts

InitMatches ==
    /\ pc = "matches"
    /\ args \in [ self : [ annotation : Annotations, is_variable_keywords : BOOLEAN ],
                  annotation : Annotations ]
    /\ result = NoResult
    /\ NoRunner

Matches ==
    /\ pc = "matches"
    /\ result = NoResult
    /\ result' = [kind |-> "returned", value |-> matches(args.self, args.annotation)]
    /\ UNCHANGED << pc, args >>
    /\ UNCHANGED notCallVars

NextMatches == Matches

SpecMatches == InitMatches /\ [][NextMatches]_vars

\* the types an annotation stands for: a union's members, or the type itself
TypesOf(annotation) ==
    IF annotation.origin = "Union" THEN annotation.args ELSE { annotation.name }

\* C17: matches(required) is true when the parameter is annotated Any, or is
\* variadic-keyword and annotated object; otherwise it is true exactly when
\* every member of the required annotation is a member of the parameter's
\* annotation: int|str matches a required int, int does not match a required
\* int|str.
C17_MatchesIsContainment ==
    (pc = "matches" /\ result # NoResult) =>
        LET param == args.self.annotation
            required == args.annotation
        IN  /\ result.kind = "returned"
            /\ IF \/ (param.origin = "None" /\ param.name = "Any")
                  \/ /\ args.self.is_variable_keywords
                     /\ param.origin = "None" /\ param.name = "object"
               THEN result.value = TRUE
               ELSE result.value = (TypesOf(required) \subseteq TypesOf(param))
            /\ (TypesOf(param) = {"int", "str"} /\ TypesOf(required) = {"int"})
                  => result.value = TRUE
            /\ (TypesOf(param) = {"int"} /\ TypesOf(required) = {"int", "str"})
                  => result.value = FALSE

\* a parameter annotated int | str was asked for a required int and matched
C17_Witness ==
    /\ pc = "matches"
    /\ result # NoResult /\ result.value = TRUE
    /\ args.self.annotation.origin = "Union"
    /\ args.self.annotation.args = {"int", "str"}
    /\ args.annotation.origin = "None" /\ args.annotation.name = "int"
    /\ ~args.self.is_variable_keywords

(* ------- CheckPositionalArgsAreCorrectFunctionScenario.run ------------- *)

\* most parameters of a function besides self
MaxArgs == 2

\* the positional context a DispatchFunction may carry: a prefix of these
\* (name, annotation) pairs
PositionalPool == << << "ctx", "Context" >>, << "extra", "int" >> >>

Positionals == { SubSeq(PositionalPool, 1, n) : n \in 0..Len(PositionalPool) }

FunctionArg(name, keyword_only, annotation, is_self, is_variable_positional, required) ==
    [ name |-> name, keyword_only |-> keyword_only, annotation |-> annotation,
      is_self |-> is_self, is_variable_positional |-> is_variable_positional,
      required |-> required, is_variable_keywords |-> FALSE ]

\* the argument Function.from_callback makes of a **kwargs parameter that is
\* not annotated with Unpack
VariableKeywordsArg(name, annotation) ==
    [ FunctionArg(name, TRUE, annotation, FALSE, FALSE, FALSE)
        EXCEPT !.is_variable_keywords = TRUE ]

\* the argument Function.from_callback makes of the first parameter of a method
SelfArg == FunctionArg("self", FALSE, "View", TRUE, FALSE, FALSE)

\* the parameters the positional scenario is run on: plain ones with any
\* annotation, keyword-only ones and *args
PositionalScenarioArgs ==
    { FunctionArg(name, FALSE, annotation, FALSE, FALSE, TRUE) :
        name \in {"ctx", "extra"}, annotation \in {"Any", "Context", "int"} }
      \cup { FunctionArg(name, TRUE, "Any", FALSE, FALSE, TRUE) : name \in {"ctx", "extra"} }
      \cup { FunctionArg("args", FALSE, "Any", FALSE, TRUE, FALSE) }

\* DispatchFunction: a method (self first) or a plain function
DispatchFunctions(function_args) ==
    { [ function_args |-> self \o rest, positional |-> positional ] :
        self \in { <<>>, << SelfArg >> },
        rest \in UNION { [1..n -> function_args] : n \in 0..MaxArgs },
        positional \in Positionals }

\* MismatchedRequiredArgs.Incorrect and the classmethods that make one
missing(name) == [reason |-> "missing", name |-> name]
misnamed(index, got, want) ==
    [reason |-> "misnamed", index |-> index, got |-> got, want |-> want]
mistyped(name, got, want) ==
    [reason |-> "mistyped", name |-> name, got |-> got, want |-> want]
no_var_args(name) == [reason |-> "no_var_args", name |-> name]
make_keyword_only(name) == [reason |-> "make_keyword_only", name |-> name]

\* is_mistyped is abstract: an implementation returns an Incorrect or None
is_mistyped(scenario, name, got_annotation, want_annotation) ==
    IF scenario.is_mistyped = "None" THEN <<>>
    ELSE << mistyped(name, got_annotation, want_annotation) >>

\* faulty variant: an Any annotation is not exempt
annotation_differs_AnyToo(arg, annotation) == arg.annotation # annotation

\* `arg.annotation not in (Any, annotation)`
annotation_differs(arg, annotation) == arg.annotation \notin {"Any", annotation}

\* faulty variant: a keyword-only parameter does not end the scan
ends_scan_Never(arg) == FALSE

\* line 138: `if arg.keyword_only: break` once no positional is left
ends_scan(arg) == arg.keyword_only

\* MismatchedRequiredArgs(function=..., incorrect=...), rendered by the
\* function's display and the reasons
MismatchedRequiredArgs(function, incorrect) ==
    [cls |-> "MismatchedRequiredArgs", value |-> << "function", incorrect >>]

\* lines 106-149: the loop over function.function_args from index i on;
\* st holds the locals (positional left, position, incorrect) and the
\* is_mistyped calls made
RECURSIVE scan(_, _, _, _)
scan(scenario, function, i, st) ==
    IF i > Len(function.function_args) THEN st
    ELSE
      LET arg == function.function_args[i] IN
      IF arg.is_self THEN scan(scenario, function, i + 1, st)
      ELSE
        LET position == st.position + 1 IN
        IF st.positional # <<>>
        THEN
          LET name == Head(st.positional)[1]
              annotation == Head(st.positional)[2]
              popped == [st EXCEPT !.position = position,
                                   !.positional = Tail(st.positional)]
          IN  IF arg.is_variable_positional
              THEN [popped EXCEPT !.incorrect = Append(@, missing(name))]
              ELSE IF arg.keyword_only
              THEN scan(scenario, function, i + 1,
                        [popped EXCEPT !.incorrect = Append(@, missing(name))])
              ELSE IF arg.name # name
              THEN scan(scenario, function, i + 1,
                        [popped EXCEPT !.incorrect =
                            Append(@, misnamed(position, arg.name, name))])
              ELSE IF annotation_differs(arg, annotation)
              THEN scan(scenario, function, i + 1,
                        [popped EXCEPT
                           !.incorrect =
                              @ \o is_mistyped(scenario, name, arg.annotation, annotation),
                           !.is_mistyped_calls =
                              Append(@, [name |-> name, position |-> position,
                                         got_annotation |-> arg.annotation,
                                         want_annotation |-> annotation])])
              ELSE scan(scenario, function, i + 1, popped)
        ELSE
          LET stepped == [st EXCEPT !.position = position]
          IN  IF ends_scan(arg) THEN stepped
              ELSE IF arg.is_variable_positional /\ scenario.disallow_var_args
              THEN scan(scenario, function, i + 1,
                        [stepped EXCEPT !.incorrect = Append(@, no_var_args(arg.name))])
              ELSE IF scenario.enforce_keyword_args
              THEN scan(scenario, function, i + 1,
                        [stepped EXCEPT !.incorrect =
                            Append(@, make_keyword_only(arg.name))])
              ELSE scan(scenario, function, i + 1, stepped)

\* lines 102-105: the locals before the loop
scan_start(function) ==
    [ positional |-> function.positional, position |-> 0 - 1,
      incorrect |-> <<>>, is_mistyped_calls |-> <<>> ]

InitPositional ==
    /\ pc = "CheckPositionalArgsAreCorrectFunctionScenario.run"
    /\ args \in [ scenario : [ disallow_var_args : BOOLEAN,
                               enforce_keyword_args : BOOLEAN,
                               is_mistyped : {"None", "Incorrect"} ],
                  function : DispatchFunctions(PositionalScenarioArgs) ]
    /\ result = NoResult
    /\ NoRunner

\* CheckPositionalArgsAreCorrectFunctionScenario.run
CheckPositionalArgsAreCorrect ==
    /\ pc = "CheckPositionalArgsAreCorrectFunctionScenario.run"
    /\ result = NoResult
    /\ LET st == scan(args.scenario, args.function, 1, scan_start(args.function))
       IN  /\ result' = [kind |-> "returned", incorrect |-> st.incorrect,
                         is_mistyped_calls |-> st.is_mistyped_calls]
           /\ errors' = IF st.incorrect # <<>>
                        THEN add(errors, MismatchedRequiredArgs(args.function, st.incorrect))
                        ELSE errors
    /\ UNCHANGED << pc, args >>
    /\ UNCHANGED notScenarioVars

NextPositional == CheckPositionalArgsAreCorrect

SpecPositional == InitPositional /\ [][NextPositional]_vars

(* ------------- positional scenario: what is claimed -------------------- *)

\* the parameters of the function without self, and its positional context
NonSelf == SelectSeq(args.function.function_args, LAMBDA a : ~a.is_self)
Slots == args.function.positional

\* the parameters that have a slot of the positional context
InContext == { k \in DOMAIN NonSelf : k <= Len(Slots) }

\* the variadic-positional parameters among them
ContextStop == { k \in InContext : NonSelf[k].is_variable_positional }

\* the parameters compared with their slot: up to the first *args
ContextScanned == { k \in InContext : \A j \in ContextStop : k <= j }

\* what is_mistyped is asked about the k-th parameter, if anything
MistypedCall(k) ==
    IF /\ ~NonSelf[k].is_variable_positional
       /\ ~NonSelf[k].keyword_only
       /\ NonSelf[k].name = Slots[k][1]
       /\ NonSelf[k].annotation # "Any"
       /\ NonSelf[k].annotation # Slots[k][2]
    THEN << [name |-> Slots[k][1], position |-> k - 1,
             got_annotation |-> NonSelf[k].annotation,
             want_annotation |-> Slots[k][2]] >>
    ELSE <<>>

\* the entries the k-th parameter gives rise to while slots remain
ContextEntry(k) ==
    IF NonSelf[k].is_variable_positional \/ NonSelf[k].keyword_only
    THEN << [reason |-> "missing", name |-> Slots[k][1]] >>
    ELSE IF NonSelf[k].name # Slots[k][1]
    THEN << [reason |-> "misnamed", index |-> k - 1,
             got |-> NonSelf[k].name, want |-> Slots[k][1]] >>
    ELSE IF MistypedCall(k) # <<>> /\ args.scenario.is_mistyped # "None"
    THEN << [reason |-> "mistyped", name |-> Slots[k][1],
             got |-> NonSelf[k].annotation, want |-> Slots[k][2]] >>
    ELSE <<>>

RECURSIVE ContextEntries(_)
ContextEntries(n) ==
    IF n = 0 THEN <<>>
    ELSE ContextEntries(n - 1) \o (IF n \in ContextScanned THEN ContextEntry(n) ELSE <<>>)

RECURSIVE MistypedCalls(_)
MistypedCalls(n) ==
    IF n = 0 THEN <<>>
    ELSE MistypedCalls(n - 1) \o (IF n \in ContextScanned THEN MistypedCall(n) ELSE <<>>)

\* the parameters past the positional context that the scan reaches: none
\* after an *args within the context, else those before the first
\* keyword-only one
AfterContext ==
    IF ContextStop # {} THEN {}
    ELSE { k \in DOMAIN NonSelf :
             /\ k > Len(Slots)
             /\ \A j \in DOMAIN NonSelf :
                   (j > Len(Slots) /\ NonSelf[j].keyword_only) => k < j }

AfterEntry(k) ==
    IF NonSelf[k].is_variable_positional /\ args.scenario.disallow_var_args
    THEN << [reason |-> "no_var_args", name |-> NonSelf[k].name] >>
    ELSE IF args.scenario.enforce_keyword_args
    THEN << [reason |-> "make_keyword_only", name |-> NonSelf[k].name] >>
    ELSE <<>>

RECURSIVE AfterEntries(_)
AfterEntries(n) ==
    IF n = 0 THEN <<>>
    ELSE AfterEntries(n - 1) \o (IF n \in AfterContext THEN AfterEntry(n) ELSE <<>>)

PositionalRan ==
    pc = "CheckPositionalArgsAreCorrectFunctionScenario.run" /\ result # NoResult

\* C18: while slots of the positional context remain, each non-self
\* parameter takes one slot: *args adds "missing <slot name>" and ends the
\* whole scan; a keyword-only parameter adds "missing <slot name>" and the
\* scan goes on; a differently named parameter adds "misnamed" with its
\* zero-based position among the non-self parameters; a same-named parameter
\* annotated neither Any nor the slot's type is passed to is_mistyped, whose
\* result is added unless it is None; no other parameter adds anything or
\* is passed to is_mistyped.
C18_ContextSlotsAreCompared ==
    PositionalRan =>
        /\ IsPrefix(ContextEntries(Len(NonSelf)), result.incorrect)
        /\ ContextStop # {} => result.incorrect = ContextEntries(Len(NonSelf))
        /\ result.is_mistyped_calls = MistypedCalls(Len(NonSelf))

\* a method whose ctx parameter is annotated int was passed to is_mistyped,
\* and whose *args took the second slot and ended the scan
C18_Witness ==
    /\ PositionalRan
    /\ Len(args.function.function_args) > Len(NonSelf)
    /\ Len(result.is_mistyped_calls) = 1
    /\ ContextStop # {}
    /\ Len(result.incorrect) = 2
    /\ result.incorrect[1].reason = "mistyped"
    /\ result.incorrect[2] = [reason |-> "missing", name |-> "extra"]

\* C19: once the positional context is used up the first keyword-only
\* parameter ends the scan; before it, with enforce_keyword_args, every
\* non-variadic parameter adds one "make keyword only" entry (*args adds
\* "no var args" under disallow_var_args and is treated like the others
\* otherwise).  (ctx, *, extra) against [ctx] adds no violation; (ctx, extra)
\* adds one MismatchedRequiredArgs whose only entry is make-keyword-only for
\* extra.  One run adds at most one violation, and it holds all entries in
\* parameter order.
C19_KeywordOnlyAfterContext ==
    PositionalRan =>
        LET n == Len(NonSelf)
            ctx_fits == /\ n = 2 /\ Len(Slots) = 1
                        /\ ~NonSelf[1].keyword_only /\ ~NonSelf[1].is_variable_positional
                        /\ NonSelf[1].name = "ctx"
                        /\ NonSelf[1].annotation \in {"Any", "Context"}
        IN  /\ result.incorrect = ContextEntries(n) \o AfterEntries(n)
            /\ args.scenario.enforce_keyword_args =>
                  \A k \in AfterContext :
                      ~NonSelf[k].is_variable_positional =>
                          Cardinality({ i \in DOMAIN result.incorrect :
                              result.incorrect[i] =
                                  [reason |-> "make_keyword_only",
                                   name |-> NonSelf[k].name] })
                            = Cardinality({ j \in AfterContext :
                                  /\ NonSelf[j].name = NonSelf[k].name
                                  /\ ~NonSelf[j].is_variable_positional })
            /\ (ctx_fits /\ NonSelf[2].keyword_only) =>
                  result.incorrect = <<>> /\ errors = ErrorContainer
            /\ (/\ ctx_fits /\ args.scenario.enforce_keyword_args
                /\ ~NonSelf[2].keyword_only /\ ~NonSelf[2].is_variable_positional
                /\ NonSelf[2].name = "extra") =>
                  result.incorrect = << [reason |-> "make_keyword_only", name |-> "extra"] >>
            /\ IF result.incorrect = <<>>
               THEN errors = ErrorContainer
               ELSE /\ Len(errors.by_error_str) = 1
                    /\ errors.by_error_str[1][2] = 1
                    /\ Len(Iter(errors)) = 1
                    /\ Iter(errors)[1].cls = "MismatchedRequiredArgs"
                    /\ Iter(errors)[1].value[2] = result.incorrect

\* a method (self, ctx, extra) with context [ctx] was checked with
\* enforce_keyword_args and got one violation
C19_Witness ==
    /\ PositionalRan
    /\ Len(args.function.function_args) = 3
    /\ Len(NonSelf) = 2 /\ Len(Slots) = 1
    /\ NonSelf[1].name = "ctx" /\ NonSelf[1].annotation = "Context"
    /\ NonSelf[2].name = "extra" /\ ~NonSelf[2].keyword_only
    /\ args.scenario.enforce_keyword_args
    /\ result.incorrect = << [reason |-> "make_keyword_only", name |-> "extra"] >>
    /\ Len(Iter(errors)) = 1

\* C26: a variadic-positional parameter reached after the positional
\* context is used up adds a "no var args" entry only under
\* disallow_var_args; without disallow_var_args it adds no entry at all,
\* whatever enforce_keyword_args is, and every "make keyword only" entry is
\* for a parameter that is not variadic-positional.
C26_VarArgsNeverMadeKeywordOnly ==
    PositionalRan =>
        /\ \A k \in AfterContext :
              NonSelf[k].is_variable_positional =>
                  LET entries == { i \in DOMAIN result.incorrect :
                                     /\ result.incorrect[i].reason
                                            \in {"no_var_args", "make_keyword_only"}
                                     /\ result.incorrect[i].name = NonSelf[k].name }
                  IN  /\ ~args.scenario.disallow_var_args => entries = {}
                      /\ \A i \in entries :
                            /\ result.incorrect[i].reason = "no_var_args"
                            /\ args.scenario.disallow_var_args
        /\ \A i \in DOMAIN result.incorrect :
              result.incorrect[i].reason = "make_keyword_only" =>
                  \E k \in DOMAIN NonSelf :
                      /\ NonSelf[k].name = result.incorrect[i].name
                      /\ ~NonSelf[k].is_variable_positional

\* C28: when the function has fewer non-self parameters than the positional
\* context has slots, every slot without a parameter is reported as a
\* "missing" entry, so that the run adds a violation.
C28_UnmatchedSlotsAreMissing ==
    (PositionalRan /\ Len(NonSelf) < Len(Slots)) =>
        /\ \A k \in (Len(NonSelf) + 1)..Len(Slots) :
              \E i \in DOMAIN result.incorrect :
                  result.incorrect[i] = [reason |-> "missing", name |-> Slots[k][1]]
        /\ Len(Iter(errors)) = 1

(* ------- CheckRequiredArgsMatchUrlPatternFunctionScenario.run ---------- *)

\* the parameters the coverage scenario is run on
CoverageScenarioArgs ==
    { FunctionArg(name, FALSE, "Any", FALSE, FALSE, required) :
        name \in {"pk", "slug"}, required \in BOOLEAN }

\* what one route part supplies: the names of its named groups (captured)
\* and the names of the default arguments bound to it
Supplies ==
    { [captured |-> {}, default_arg_names |-> {}],
      [captured |-> {"pk"}, default_arg_names |-> {}],
      [captured |-> {"slug"}, default_arg_names |-> {}],
      [captured |-> {}, default_arg_names |-> {"pk"}],
      [captured |-> {}, default_arg_names |-> {"slug"}],
      [captured |-> {"pk"}, default_arg_names |-> {"slug"}] }

\* pattern.parts: the i-th part is defined at Where i
PatternParts ==
    { [ i \in DOMAIN supplied |->
          [ captured |-> supplied[i].captured,
            default_arg_names |-> supplied[i].default_arg_names,
            where |-> i ] ] :
        supplied \in UNION { [1..n -> Supplies] : n \in 0..MaxParts } }

\* faulty variant: default arguments do not count
supplied_by_pattern_CapturedOnly(arg, pattern) ==
    \E i \in DOMAIN pattern.parts : arg.name \in pattern.parts[i].captured

\* lines 221-222: some part captures the name or binds it by default
supplied_by_pattern(arg, pattern) ==
    \/ \E i \in DOMAIN pattern.parts : arg.name \in pattern.parts[i].captured
    \/ \E i \in DOMAIN pattern.parts : arg.name \in pattern.parts[i].default_arg_names

\* lines 211-224: the loop over function.function_args from index i on, with
\* the positional context left and the names found missing so far
RECURSIVE collect_missing(_, _, _, _, _)
collect_missing(function, pattern, i, positional, found) ==
    IF i > Len(function.function_args) THEN found
    ELSE
      LET arg == function.function_args[i] IN
      IF arg.is_self
      THEN collect_missing(function, pattern, i + 1, positional, found)
      ELSE IF positional # <<>>
      THEN collect_missing(function, pattern, i + 1, Tail(positional), found)
      ELSE IF arg.required /\ ~supplied_by_pattern(arg, pattern)
      THEN collect_missing(function, pattern, i + 1, positional, found \cup {arg.name})
      ELSE collect_missing(function, pattern, i + 1, positional, found)

\* RequiredArgOnViewNotAlwaysRequiredByPattern(...), rendered by the
\* function's display, the sorted missing names and the parts' Wheres
RequiredArgOnViewNotAlwaysRequiredByPattern(pattern_wheres, missing_args) ==
    [ cls |-> "RequiredArgOnViewNotAlwaysRequiredByPattern",
      value |-> << "function", missing_args, pattern_wheres >>,
      pattern_wheres |-> pattern_wheres,
      missing_args |-> missing_args ]

InitCoverage ==
    /\ pc = "CheckRequiredArgsMatchUrlPatternFunctionScenario.run"
    /\ args \in [ function : DispatchFunctions(CoverageScenarioArgs),
                  pattern : [ parts : PatternParts ] ]
    /\ result = NoResult
    /\ NoRunner

\* CheckRequiredArgsMatchUrlPatternFunctionScenario.run
CheckRequiredArgsMatchUrlPattern ==
    /\ pc = "CheckRequiredArgsMatchUrlPatternFunctionScenario.run"
    /\ result = NoResult
    /\ LET found == collect_missing(args.function, args.pattern, 1,
                                    args.function.positional, {})
           pattern_wheres == [ i \in DOMAIN args.pattern.parts |->
                                 args.pattern.parts[i].where ]
       IN  /\ result' = [kind |-> "returned"]
           /\ errors' =
                IF found # {}
                THEN add(errors,
                         RequiredArgOnViewNotAlwaysRequiredByPattern(pattern_wheres, found))
                ELSE errors
    /\ UNCHANGED << pc, args >>
    /\ UNCHANGED notScenarioVars

NextCoverage == CheckRequiredArgsMatchUrlPattern

SpecCoverage == InitCoverage /\ [][NextCoverage]_vars

\* the required non-self parameters past the positional context whose name
\* no part captures and no part binds by default
MissingFromPattern ==
    { NonSelf[k].name : k \in
        { j \in DOMAIN NonSelf :
            /\ j > Len(Slots)
            /\ NonSelf[j].required
            /\ \A i \in DOMAIN args.pattern.parts :
                  /\ NonSelf[j].name \notin args.pattern.parts[i].captured
                  /\ NonSelf[j].name \notin args.pattern.parts[i].default_arg_names } }

\* C20: one run of the coverage scenario adds exactly one
\* RequiredArgOnViewNotAlwaysRequiredByPattern if some required non-self
\* parameter past the positional context has a name that no part captures
\* and no part binds by default, and adds nothing otherwise; the violation's
\* missing names are exactly those names and it carries the Where of every
\* part, in part order.
C20_RequiredArgsCoveredByRoute ==
    (pc = "CheckRequiredArgsMatchUrlPatternFunctionScenario.run" /\ result # NoResult) =>
        IF MissingFromPattern = {}
        THEN errors = ErrorContainer
        ELSE /\ Len(errors.by_error_str) = 1
             /\ errors.by_error_str[1][2] = 1
             /\ Len(Iter(errors)) = 1
             /\ Iter(errors)[1].cls = "RequiredArgOnViewNotAlwaysRequiredByPattern"
             /\ Iter(errors)[1].missing_args = MissingFromPattern
             /\ Len(Iter(errors)[1].pattern_wheres) = Len(args.pattern.parts)
             /\ \A i \in DOMAIN args.pattern.parts :
                   Iter(errors)[1].pattern_wheres[i] = args.pattern.parts[i].where

\* a method with no positional context and two required parameters was run
\* on a two-part route without named groups: one name is bound by default,
\* the other is missing
C20_Witness ==
    /\ pc = "CheckRequiredArgsMatchUrlPatternFunctionScenario.run"
    /\ result # NoResult
    /\ Len(args.function.function_args) > Len(NonSelf)
    /\ Len(Slots) = 0
    /\ Len(NonSelf) = 2 /\ NonSelf[1].required /\ NonSelf[2].required
    /\ Len(args.pattern.parts) = 2
    /\ Cardinality(MissingFromPattern) = 1
    /\ \E i \in DOMAIN args.pattern.parts :
          args.pattern.parts[i].default_arg_names # {}
    /\ \A i \in DOMAIN args.pattern.parts : args.pattern.parts[i].captured = {}
    /\ Len(Iter(errors)) = 1

(* ---------------- CheckAcceptsArgsFunctionScenario.run ----------------- *)

\* the parameters the accepts scenario is run on: plain ones, *pk, a **slug
\* that takes ints only and a **kwargs that takes anything
AcceptsScenarioArgs ==
    { FunctionArg(name, FALSE, "Any", FALSE, FALSE, TRUE) : name \in {"pk", "slug"} }
      \cup { FunctionArg("pk", FALSE, "Any", FALSE, TRUE, FALSE),
             VariableKeywordsArg("slug", "int"),
             VariableKeywordsArg("kwargs", "object") }

\* Function.from_callback lines 114-117: a **kwargs annotated object or Any
\* (or not annotated) makes the function take arbitrary keywords
allows_arbitrary(function_args) ==
    \E i \in DOMAIN function_args :
        /\ function_args[i].is_variable_keywords
        /\ function_args[i].annotation \in {"object", "Any"}

WithAllowsArbitrary(functions) ==
    { [ function_args |-> f.function_args, positional |-> f.positional,
        allows_arbitrary |-> allows_arbitrary(f.function_args) ] : f \in functions }

\* faulty variant: variadic parameters count as accepted names
is_variadic_Never(arg) == FALSE

\* line 286: `arg.is_variable_keywords or arg.is_variable_positional`
is_variadic(arg) == arg.is_variable_keywords \/ arg.is_variable_positional

\* lines 278-289: the loop over function.function_args from index i on, with
\* the positional context left and the names found available so far
RECURSIVE collect_available(_, _, _, _)
collect_available(function, i, positional, available) ==
    IF i > Len(function.function_args) THEN available
    ELSE
      LET arg == function.function_args[i] IN
      IF arg.is_self
      THEN collect_available(function, i + 1, positional, available)
      ELSE IF positional # <<>>
      THEN collect_available(function, i + 1, Tail(positional), available)
      ELSE IF is_variadic(arg)
      THEN collect_available(function, i + 1, positional, available)
      ELSE collect_available(function, i + 1, positional, available \cup {arg.name})

\* the elements of a set of names, in iteration order
RECURSIVE names_in_order(_)
names_in_order(names) ==
    IF names = {} THEN <<>>
    ELSE LET name == CHOOSE n \in names : TRUE
         IN  << name >> \o names_in_order(names \ {name})

\* `(*part.captured, *part.default_arg_names)`
part_names(part) ==
    names_in_order(part.captured) \o names_in_order(part.default_arg_names)

\* lines 291-294: the loop over pattern.parts from part i on
RECURSIVE collect_unaccepted(_, _, _)
collect_unaccepted(pattern, available, i) ==
    IF i > Len(pattern.parts) THEN <<>>
    ELSE
      LET part == pattern.parts[i]
          unaccepted == SelectSeq(part_names(part), LAMBDA name : name \notin available)
      IN  [ k \in DOMAIN unaccepted |-> << part.where, unaccepted[k] >> ]
            \o collect_unaccepted(pattern, available, i + 1)

\* ViewDoesNotAcceptCapturedArg(...), rendered by the function's display and
\* the (Where, name) pairs
ViewDoesNotAcceptCapturedArg(missing_pairs) ==
    [ cls |-> "ViewDoesNotAcceptCapturedArg",
      value |-> << "function", missing_pairs >>,
      missing |-> missing_pairs ]

InitAccepts ==
    /\ pc = "CheckAcceptsArgsFunctionScenario.run"
    /\ args \in [ function : WithAllowsArbitrary(DispatchFunctions(AcceptsScenarioArgs)),
                  pattern : [ parts : PatternParts ] ]
    /\ result = NoResult
    /\ NoRunner

\* CheckAcceptsArgsFunctionScenario.run
CheckAcceptsArgs ==
    /\ pc = "CheckAcceptsArgsFunctionScenario.run"
    /\ result = NoResult
    /\ result' = [kind |-> "returned"]
    /\ IF args.function.allows_arbitrary
       THEN UNCHANGED errors
       ELSE LET available == collect_available(args.function, 1,
                                               args.function.positional, {})
                missing_pairs == collect_unaccepted(args.pattern, available, 1)
            IN  errors' = IF missing_pairs # <<>>
                          THEN add(errors, ViewDoesNotAcceptCapturedArg(missing_pairs))
                          ELSE errors
    /\ UNCHANGED << pc, args >>
    /\ UNCHANGED notScenarioVars

NextAccepts == CheckAcceptsArgs

SpecAccepts == InitAccepts /\ [][NextAccepts]_vars

\* the names of the non-self, non-variadic parameters past the positional
\* context
AcceptedNames ==
    { NonSelf[k].name : k \in
        { j \in DOMAIN NonSelf :
            /\ j > Len(Slots)
            /\ ~NonSelf[j].is_variable_positional
            /\ ~NonSelf[j].is_variable_keywords } }

\* the (Where, name) pairs of parts 1..n whose name is not accepted: per
\* part the captured name, then the default-bound name
RECURSIVE Unaccepted(_)
Unaccepted(n) ==
    IF n = 0 THEN <<>>
    ELSE LET part == args.pattern.parts[n]
             of(names) == IF names \subseteq AcceptedNames THEN <<>>
                          ELSE << << part.where,
                                     CHOOSE name \in names : name \notin AcceptedNames >> >>
         IN  Unaccepted(n - 1) \o of(part.captured) \o of(part.default_arg_names)

AcceptsRan == pc = "CheckAcceptsArgsFunctionScenario.run" /\ result # NoResult

\* C21: the accepts scenario adds nothing when the function takes arbitrary
\* keywords; otherwise it adds exactly one ViewDoesNotAcceptCapturedArg if
\* some captured or default-bound name of some part is not the name of a
\* non-self, non-variadic parameter past the positional context, and nothing
\* if there is no such name; the violation lists one (part Where, name) pair
\* per such name, in part order, captured names before default-bound ones.
C21_CapturedArgsAreAccepted ==
    AcceptsRan =>
        LET expected == Unaccepted(Len(args.pattern.parts))
        IN  IF args.function.allows_arbitrary \/ expected = <<>>
            THEN errors = ErrorContainer
            ELSE /\ Len(errors.by_error_str) = 1
                 /\ errors.by_error_str[1][2] = 1
                 /\ Len(Iter(errors)) = 1
                 /\ Iter(errors)[1].cls = "ViewDoesNotAcceptCapturedArg"
                 /\ Iter(errors)[1].missing = expected

\* a method with *pk past the context was run on a two-part route that
\* captures pk and binds slug by default in one part: both are listed,
\* captured first
C21_Witness ==
    /\ AcceptsRan
    /\ Len(args.function.function_args) > Len(NonSelf)
    /\ \E k \in DOMAIN NonSelf :
          k > Len(Slots) /\ NonSelf[k].is_variable_positional /\ NonSelf[k].name = "pk"
    /\ Len(args.pattern.parts) = 2
    /\ Len(Iter(errors)) = 1
    /\ Iter(errors)[1].missing = << <<2, "pk">>, <<2, "slug">> >>

(* ------------ CheckHasCorrectAnnotationsFunctionScenario.run ----------- *)

\* the parameters the annotation scenario is run on: pk and slug with an
\* annotation, and a **pk that takes objects
AnnotatedScenarioArgs ==
    { FunctionArg(name, FALSE, annotation, FALSE, FALSE, TRUE) :
        name \in {"pk", "slug"},
        annotation \in { Plain("int"), Plain("str"), Plain("Any"),
                         Union({"int", "str"}) } }
      \cup { VariableKeywordsArg("pk", Plain("object")) }

\* self is annotated with the view class
AnnotatedSelfArg == FunctionArg("self", FALSE, Plain("View"), TRUE, FALSE, FALSE)

\* a signature has no two parameters of one name
AnnotatedFunctions ==
    { [ function_args |-> self \o rest ] :
        self \in { <<>>, << AnnotatedSelfArg >> },
        rest \in { r \in UNION { [1..n -> AnnotatedScenarioArgs] : n \in 0..MaxArgs } :
                     \A i, j \in DOMAIN r : r[i].name = r[j].name => i = j } }

\* CapturedArg: what a converter makes of a named group
CapturedArg(annotation) == [annotation |-> annotation]

\* part.captured is a dict of name -> CapturedArg, kept in insertion order
CapturedParts ==
    { [captured |-> <<>>, default_arg_names |-> {}],
      [captured |-> << <<"pk", CapturedArg(Plain("int"))>> >>, default_arg_names |-> {}],
      [captured |-> << <<"pk", CapturedArg(Union({"int", "str"}))>> >>,
       default_arg_names |-> {}],
      [captured |-> << <<"slug", CapturedArg(Plain("int"))>> >>, default_arg_names |-> {}],
      [captured |-> <<>>, default_arg_names |-> {"pk"}],
      [captured |-> << <<"slug", CapturedArg(Plain("int"))>>,
                       <<"pk", CapturedArg(Plain("int"))>> >>, default_arg_names |-> {}],
      [captured |-> << <<"slug", CapturedArg(Plain("int"))>> >>,
       default_arg_names |-> {"pk"}] }

AnnotatedPatternParts ==
    { [ i \in DOMAIN supplied |->
          [ captured |-> supplied[i].captured,
            default_arg_names |-> supplied[i].default_arg_names,
            where |-> i ] ] :
        supplied \in UNION { [1..n -> CapturedParts] : n \in 0..MaxParts } }

\* line 425: {function_arg.name: function_arg for function_arg in
\* function.function_args}; a later parameter replaces an earlier one of the
\* same name
args_by_name(function_args) ==
    [ name \in { function_args[i].name : i \in DOMAIN function_args } |->
        LET last == CHOOSE i \in DOMAIN function_args :
                        /\ function_args[i].name = name
                        /\ \A j \in DOMAIN function_args :
                              function_args[j].name = name => j <= i
        IN  function_args[last] ]

\* faulty variant: the parameter's annotation is taken as the required side
is_incorrect_Swapped(by_name, name, captured_arg) ==
    /\ name \in DOMAIN by_name
    /\ ~matches([annotation |-> captured_arg.annotation, is_variable_keywords |-> FALSE],
                by_name[name].annotation)

\* lines 431-433: `(found := args_by_name.get(name)) and not
\* found.matches(captured_arg.annotation)`
is_incorrect(by_name, name, captured_arg) ==
    /\ name \in DOMAIN by_name
    /\ ~matches(by_name[name], captured_arg.annotation)

\* lines 430-434: the loop over part.captured.items()
incorrect_of_part(by_name, part) ==
    LET items == SelectSeq(part.captured,
                           LAMBDA item : is_incorrect(by_name, item[1], item[2]))
    IN  [ k \in DOMAIN items |->
            << items[k][1], by_name[items[k][1]].annotation, items[k][2].annotation >> ]

\* lines 429-434: the loop over pattern.parts from part i on
RECURSIVE collect_incorrect(_, _, _)
collect_incorrect(by_name, pattern, i) ==
    IF i > Len(pattern.parts) THEN <<>>
    ELSE incorrect_of_part(by_name, pattern.parts[i])
           \o collect_incorrect(by_name, pattern, i + 1)

\* InvalidArgAnnotations(...), rendered by the function's display and the
\* (name, view annotation, pattern annotation) triples
InvalidArgAnnotations(incorrect) ==
    [ cls |-> "InvalidArgAnnotations",
      value |-> << "function", incorrect >>,
      incorrect |-> incorrect ]

InitAnnotations ==
    /\ pc = "CheckHasCorrectAnnotationsFunctionScenario.run"
    /\ args \in [ function : AnnotatedFunctions,
                  pattern : [ parts : AnnotatedPatternParts ] ]
    /\ result = NoResult
    /\ NoRunner

\* CheckHasCorrectAnnotationsFunctionScenario.run
CheckHasCorrectAnnotations ==
    /\ pc = "CheckHasCorrectAnnotationsFunctionScenario.run"
    /\ result = NoResult
    /\ result' = [kind |-> "returned"]
    /\ LET incorrect == collect_incorrect(args_by_name(args.function.function_args),
                                          args.pattern, 1)
       IN  errors' = IF incorrect # <<>>
                     THEN add(errors, InvalidArgAnnotations(incorrect))
                     ELSE errors
    /\ UNCHANGED << pc, args >>
    /\ UNCHANGED notScenarioVars

NextAnnotations == CheckHasCorrectAnnotations

SpecAnnotations == InitAnnotations /\ [][NextAnnotations]_vars

\* the parameter takes the captured type: it is annotated Any, or is **kwargs
\* annotated object, or every type of the captured annotation is one of its
\* own
Takes(param, captured) ==
    \/ (param.annotation.origin = "None" /\ param.annotation.name = "Any")
    \/ /\ param.is_variable_keywords
       /\ param.annotation.origin = "None" /\ param.annotation.name = "object"
    \/ TypesOf(captured) \subseteq TypesOf(param.annotation)

\* the (name, parameter annotation, captured annotation) entries of the
\* first m captures of part n
RECURSIVE MismatchesOfPart(_, _)
MismatchesOfPart(n, m) ==
    IF m = 0 THEN <<>>
    ELSE LET item == args.pattern.parts[n].captured[m]
             params == args.function.function_args
             same == { k \in DOMAIN params : params[k].name = item[1] }
         IN  MismatchesOfPart(n, m - 1) \o
               IF \E k \in same : ~Takes(params[k], item[2].annotation)
               THEN LET k == CHOOSE k \in same : TRUE
                    IN  << << item[1], params[k].annotation, item[2].annotation >> >>
               ELSE <<>>

RECURSIVE Mismatches(_)
Mismatches(n) ==
    IF n = 0 THEN <<>>
    ELSE Mismatches(n - 1) \o MismatchesOfPart(n, Len(args.pattern.parts[n].captured))

AnnotationsRan ==
    pc = "CheckHasCorrectAnnotationsFunctionScenario.run" /\ result # NoResult

\* C22: the annotation scenario adds exactly one InvalidArgAnnotations if some
\* part captures a name that a parameter of the function has too and that
\* parameter does not take the captured type (the captured type being the
\* required side), and nothing otherwise; its entries are (name, parameter
\* annotation, captured annotation) in part order; a captured name that no
\* parameter has, and a default-bound name, are never an entry.
C22_CapturedAnnotationsMatch ==
    AnnotationsRan =>
        LET expected == Mismatches(Len(args.pattern.parts))
            params == args.function.function_args
        IN  /\ IF expected = <<>>
               THEN errors = ErrorContainer
               ELSE /\ Len(errors.by_error_str) = 1
                    /\ errors.by_error_str[1][2] = 1
                    /\ Len(Iter(errors)) = 1
                    /\ Iter(errors)[1].cls = "InvalidArgAnnotations"
                    /\ Iter(errors)[1].incorrect = expected
            /\ \A e \in Range(Iter(errors)) : \A k \in DOMAIN e.incorrect :
                  /\ \E j \in DOMAIN params : params[j].name = e.incorrect[k][1]
                  /\ \E n \in DOMAIN args.pattern.parts :
                        \E m \in DOMAIN args.pattern.parts[n].captured :
                            args.pattern.parts[n].captured[m][1] = e.incorrect[k][1]

\* pk: int against a route that captures slug as int and then pk as int | str,
\* with pk bound by default in the first part too: the one entry is pk's, a
\* parameter that takes int but is required to take int | str
C22_Witness ==
    /\ AnnotationsRan
    /\ Len(args.pattern.parts) = 2
    /\ args.pattern.parts[1].default_arg_names = {"pk"}
    /\ Len(args.pattern.parts[1].captured) = 1
    /\ \A k \in DOMAIN args.function.function_args :
          args.function.function_args[k].name # "slug"
    /\ Len(Iter(errors)) = 1
    /\ Iter(errors)[1].incorrect =
          << << "pk", Plain("int"), Union({"int", "str"}) >> >>

(* ------------- CheckKwargsMustBeAnnotatedFunctionScenario.run ---------- *)

\* the explicit parameters the catch-all scenario is run on: a plain one and
\* a keyword-only one, as an expanded Unpack leaves them
ExplicitScenarioArgs ==
    { FunctionArg("pk", FALSE, "object", FALSE, FALSE, TRUE),
      FunctionArg("slug", TRUE, "Any", FALSE, FALSE, FALSE) }

\* a signature ends in at most one **kwargs; one without an annotation is
\* annotated Any by from_callback
KwargsFunctions ==
    { [ function_args |-> self \o rest \o kwargs ] :
        self \in { <<>>, << SelfArg >> },
        rest \in UNION { [1..n -> ExplicitScenarioArgs] : n \in 0..MaxArgs },
        kwargs \in { <<>> } \cup
                   { << VariableKeywordsArg("kwargs", annotation) >> :
                       annotation \in {"object", "Any", "int"} } }

\* KwargsMustBeAnnotated(...), rendered by the function's display, the name
\* and the two allowances
KwargsMustBeAnnotated(function, arg_name, allows_object, allows_any) ==
    [ cls |-> "KwargsMustBeAnnotated",
      value |-> << "function", arg_name, allows_object, allows_any >>,
      arg_name |-> arg_name,
      allows_object |-> allows_object, allows_any |-> allows_any ]

\* faulty variant: object and Any are let through whatever the scenario allows
is_allowed_Always(scenario, arg) == arg.annotation \in {"object", "Any"}

\* lines 486-490: the two `continue`s of an allowed annotation
is_allowed(scenario, arg) ==
    \/ (scenario.allows_object /\ arg.annotation = "object")
    \/ (scenario.allows_any /\ arg.annotation = "Any")

\* lines 482-500: the loop over function.function_args from index i on
RECURSIVE check_kwargs(_, _, _, _)
check_kwargs(scenario, function, i, container) ==
    IF i > Len(function.function_args) THEN container
    ELSE
      LET arg == function.function_args[i] IN
      IF ~arg.is_variable_keywords \/ is_allowed(scenario, arg)
      THEN check_kwargs(scenario, function, i + 1, container)
      ELSE check_kwargs(scenario, function, i + 1,
                        add(container,
                            KwargsMustBeAnnotated(function, arg.name,
                                                  scenario.allows_object,
                                                  scenario.allows_any)))

InitKwargs ==
    /\ pc = "CheckKwargsMustBeAnnotatedFunctionScenario.run"
    /\ args \in [ scenario : [ allows_object : BOOLEAN, allows_any : BOOLEAN ],
                  function : KwargsFunctions ]
    /\ result = NoResult
    /\ NoRunner

\* CheckKwargsMustBeAnnotatedFunctionScenario.run
CheckKwargsMustBeAnnotated ==
    /\ pc = "CheckKwargsMustBeAnnotatedFunctionScenario.run"
    /\ result = NoResult
    /\ result' = [kind |-> "returned"]
    /\ errors' = check_kwargs(args.scenario, args.function, 1, errors)
    /\ UNCHANGED << pc, args >>
    /\ UNCHANGED notScenarioVars

NextKwargs == CheckKwargsMustBeAnnotated

SpecKwargs == InitKwargs /\ [][NextKwargs]_vars

\* the positions of the variadic-keyword parameters
VariadicKeywords ==
    { k \in DOMAIN args.function.function_args :
        args.function.function_args[k].is_variable_keywords }

\* the variadic-keyword parameter at k is let through by the scenario
LetThrough(k) ==
    LET annotation == args.function.function_args[k].annotation
    IN  \/ (annotation = "object" /\ args.scenario.allows_object)
        \/ (annotation = "Any" /\ args.scenario.allows_any)

KwargsRan ==
    pc = "CheckKwargsMustBeAnnotatedFunctionScenario.run" /\ result # NoResult

\* C23: the catch-all scenario adds a KwargsMustBeAnnotated for a
\* variadic-keyword parameter unless it is annotated object and allows_object
\* is set, or annotated Any and allows_any is set; with both flags unset
\* every variadic-keyword parameter is reported, and a function with no
\* variadic-keyword parameter is never reported, whatever the flags.
C23_KwargsMustBeAnnotated ==
    KwargsRan =>
        LET reported == { k \in VariadicKeywords : ~LetThrough(k) }
            found == Iter(errors)
        IN  /\ Len(found) = Cardinality(reported)
            /\ \A k \in reported : \E e \in DOMAIN found :
                  /\ found[e].cls = "KwargsMustBeAnnotated"
                  /\ found[e].arg_name = args.function.function_args[k].name
                  /\ found[e].allows_object = args.scenario.allows_object
                  /\ found[e].allows_any = args.scenario.allows_any
                  /\ errors.by_error_str[e][2] = 1
            /\ (~args.scenario.allows_object /\ ~args.scenario.allows_any)
                  => Len(found) = Cardinality(VariadicKeywords)
            /\ VariadicKeywords = {} => errors = ErrorContainer

\* **kwargs: object was reported by a scenario that allows Any only
C23_Witness ==
    /\ KwargsRan
    /\ args.scenario.allows_any /\ ~args.scenario.allows_object
    /\ \E k \in VariadicKeywords : args.function.function_args[k].annotation = "object"
    /\ Len(Iter(errors)) = 1
    /\ Iter(errors)[1].arg_name = "kwargs"

(* -------------- CheckViewClassRequestAnnotationScenario.run ------------ *)

\* a class used as an annotation: typing.get_origin is None, get_args is ()
Class(name) == [origin |-> "None", name |-> name, args |-> <<>>]

\* container[type_args]: typing.get_origin is the container, get_args the
\* type arguments
Alias(container, type_args) ==
    [origin |-> container, name |-> container, args |-> type_args]

\* the classes an auth user model may be
UserModels == {"User", "Staff"}

\* the generic request classes
RequestContainers == {"AuthedRequest", "ApiRequest"}

\* the annotations a view class may give `request`
RequestAnnotations ==
    { Class("HttpRequest"), Class("AuthedRequest") }
      \cup { Alias(container, << user >>) :
               container \in RequestContainers, user \in UserModels }
      \cup { Alias("AuthedRequest", << "Staff", "User" >>) }

\* pattern.view_class: None for a plain callable, else a class whose type
\* hints have a request entry or none
NoViewClass == [name |-> "None", hints |-> <<>>]

\* the None that dict.get returns for a missing key
NoHint == Class("None")

RequestViewClasses ==
    { NoViewClass } \cup { [name |-> "MyView", hints |-> hints] :
                        hints \in { <<>> } \cup
                                  { << << "request", a >> >> : a \in RequestAnnotations } }

\* typing.get_type_hints(view_class).get("request")
request_hint(view_class) ==
    IF \E i \in DOMAIN view_class.hints : view_class.hints[i][1] = "request"
    THEN view_class.hints[CHOOSE i \in DOMAIN view_class.hints :
                              view_class.hints[i][1] = "request"][2]
    ELSE NoHint

\* faulty variant: the type argument of the container is not looked at
annotation_is_valid_AnyUser(self, auth_user_model, annotation) ==
    \/ annotation \in self.acceptable_annotations
    \/ annotation.origin \in self.acceptable_request_annotation_containers

\* annotation_is_valid
annotation_is_valid(self, auth_user_model, annotation) ==
    LET origin == annotation.origin
        type_args == annotation.args
    IN  \/ annotation \in self.acceptable_annotations
        \/ /\ origin \in self.acceptable_request_annotation_containers
           /\ type_args # <<>>
           /\ type_args[1] = auth_user_model

\* self.error_class(...), rendered by the class and its annotation
InvalidRequestAnnotation(view_class, request_annotation) ==
    [ cls |-> "InvalidRequestAnnotation",
      value |-> << view_class.name, request_annotation >>,
      request_annotation |-> request_annotation ]

InitRequest ==
    /\ pc = "CheckViewClassRequestAnnotationScenario.run"
    /\ args \in [ self : [ acceptable_annotations :
                             { {}, { Class("HttpRequest") },
                               { Class("HttpRequest"), Class("AuthedRequest") },
                               { Alias("ApiRequest", << "Staff" >>) } },
                           acceptable_request_annotation_containers :
                             { {}, { "AuthedRequest" }, RequestContainers } ],
                  auth_user_model : UserModels,
                  pattern : [ view_class : RequestViewClasses ] ]
    /\ result = NoResult
    /\ NoRunner

\* CheckViewClassRequestAnnotationScenario.run
CheckViewClassRequestAnnotation ==
    /\ pc = "CheckViewClassRequestAnnotationScenario.run"
    /\ result = NoResult
    /\ result' = [kind |-> "returned"]
    /\ IF args.pattern.view_class = NoViewClass
       THEN UNCHANGED errors
       ELSE LET request_annotation == request_hint(args.pattern.view_class)
            IN  IF request_annotation = NoHint
                THEN UNCHANGED errors
                ELSE IF ~annotation_is_valid(args.self, args.auth_user_model,
                                             request_annotation)
                THEN errors' = add(errors,
                                   InvalidRequestAnnotation(args.pattern.view_class,
                                                            request_annotation))
                ELSE UNCHANGED errors
    /\ UNCHANGED << pc, args >>
    /\ UNCHANGED notScenarioVars

NextRequest == CheckViewClassRequestAnnotation

SpecRequest == InitRequest /\ [][NextRequest]_vars

RequestRan ==
    pc = "CheckViewClassRequestAnnotationScenario.run" /\ result # NoResult

\* the view class of the pattern annotates request
AnnotatesRequest ==
    /\ args.pattern.view_class.name # "None"
    /\ args.pattern.view_class.hints # <<>>

\* C24: the request annotation scenario adds nothing when the pattern has no
\* view class or the class does not annotate request; otherwise it adds
\* exactly one InvalidRequestAnnotation if the annotation is neither one of
\* acceptable_annotations nor an acceptable container parameterized with the
\* auth user model as its first type argument, and nothing if it is; a bare
\* container and a container parameterized with another type are invalid.
C24_RequestAnnotationIsChecked ==
    RequestRan =>
        IF ~AnnotatesRequest THEN errors = ErrorContainer
        ELSE
          LET annotation == args.pattern.view_class.hints[1][2]
              listed == annotation \in args.self.acceptable_annotations
              parameterized ==
                  /\ annotation.origin \in args.self.acceptable_request_annotation_containers
                  /\ Len(annotation.args) > 0
                  /\ annotation.args[1] = args.auth_user_model
          IN  /\ IF listed \/ parameterized
                 THEN errors = ErrorContainer
                 ELSE /\ Len(Iter(errors)) = 1
                      /\ errors.by_error_str[1][2] = 1
                      /\ Iter(errors)[1].cls = "InvalidRequestAnnotation"
                      /\ Iter(errors)[1].request_annotation = annotation
              /\ ( /\ ~listed
                   /\ \/ annotation.args = <<>>
                      \/ annotation.args[1] # args.auth_user_model )
                    => Len(Iter(errors)) = 1

\* AuthedRequest[Staff, User] was rejected for the auth user model User
\* although AuthedRequest is an acceptable container
C24_Witness ==
    /\ RequestRan
    /\ AnnotatesRequest
    /\ args.auth_user_model = "User"
    /\ "AuthedRequest" \in args.self.acceptable_request_annotation_containers
    /\ args.pattern.view_class.hints[1][2] = Alias("AuthedRequest", << "Staff", "User" >>)
    /\ Len(Iter(errors)) = 1

(* -------------------- ViewPattern.relevant_functions ------------------- *)

\* longest http_method_names of a view class
MaxMethods == 2

\* most calls made on one object
MaxCalls == 2

\* the names http_method_names may hold
MethodNames == {"get", "post", "options"}

\* pattern.view_class: None for a plain callable, else a class with its
\* bases, its http_method_names and the names whose attribute is not None
DispatchViewClasses ==
    { [name |-> "None", bases |-> {}, http_method_names |-> <<>>, defined |-> {}] }
      \cup { [ name |-> "MyView", bases |-> bases,
               http_method_names |-> names, defined |-> defined ] :
               bases \in { {"View"}, {"View", "RedirectView"} },
               names \in UNION { [1..n -> MethodNames] : n \in 0..MaxMethods },
               defined \in SUBSET MethodNames }

\* make_dispatch_function(callback, positional=positional)
make_dispatch_function(callback, positional) ==
    [callback |-> callback, positional |-> positional]

\* the positional context (("request", request_type),)
request_positional(request_type) == << << "request", request_type >> >>

\* dispatch_function_request_type
dispatch_function_request_type == "HttpRequest"

\* faulty variant: every name of http_method_names is taken to be defined
defines_Always(view_class, method_name) == TRUE

\* lines 232-234: getattr(view_class, method_name, None) is not None
defines(view_class, method_name) == method_name \in view_class.defined

\* relevant_dispatch_functions, all it yields
relevant_dispatch_functions(view_class, request_type) ==
    LET defined_names == SelectSeq(view_class.http_method_names,
                                   LAMBDA method_name : defines(view_class, method_name))
    IN  << make_dispatch_function("http_method_not_allowed",
                                  request_positional(request_type)) >>
          \o [ k \in DOMAIN defined_names |->
                 make_dispatch_function(defined_names[k],
                                        request_positional(request_type)) ]

\* relevant_functions, all it yields
relevant_functions_of(self) ==
    IF self.view_class.name = "None"
    THEN << make_dispatch_function("callback", request_positional("HttpRequest")) >>
    ELSE << make_dispatch_function("setup", request_positional("HttpRequest")),
            make_dispatch_function("dispatch", request_positional("HttpRequest")) >>
           \o (IF "RedirectView" \in self.view_class.bases
               THEN << make_dispatch_function("get_redirect_url", <<>>) >>
               ELSE <<>>)
           \o relevant_dispatch_functions(self.view_class,
                                          dispatch_function_request_type)

InitRelevant ==
    /\ pc = "relevant_functions"
    /\ args \in [ self : [ view_class : DispatchViewClasses ] ]
    /\ result = NoResult
    /\ NoRunner

\* list(pattern.relevant_functions()), once more on the same pattern
RelevantFunctions ==
    /\ pc = "relevant_functions"
    /\ LET earlier == IF result = NoResult THEN <<>> ELSE result.calls
       IN  /\ Len(earlier) < MaxCalls
           /\ result' = [kind |-> "returned",
                         calls |-> Append(earlier, relevant_functions_of(args.self))]
    /\ UNCHANGED << pc, args >>
    /\ UNCHANGED notCallVars

NextRelevant == RelevantFunctions

SpecRelevant == InitRelevant /\ [][NextRelevant]_vars

\* the names of http_method_names[1..n] that the class defines, in order
RECURSIVE DefinedMethods(_)
DefinedMethods(n) ==
    IF n = 0 THEN <<>>
    ELSE LET method_name == args.self.view_class.http_method_names[n]
         IN  DefinedMethods(n - 1) \o
               (IF method_name \in args.self.view_class.defined
                THEN << method_name >> ELSE <<>>)

RelevantRan == pc = "relevant_functions" /\ result # NoResult

KeywordOnlyScenarioArgs ==
    { FunctionArg("pk", FALSE, "Any", FALSE, FALSE, TRUE),
      FunctionArg("pk", TRUE, "Any", FALSE, FALSE, TRUE),
      FunctionArg("slug", TRUE, "Any", FALSE, FALSE, FALSE) }

\* signatures: no name twice, no plain parameter after a keyword-only one
KeywordOnlyFunctions ==
    { f \in WithAllowsArbitrary(DispatchFunctions(KeywordOnlyScenarioArgs)) :
        LET rest == SelectSeq(f.function_args, LAMBDA a : ~a.is_self)
        IN  \A i, j \in DOMAIN rest :
                i < j => /\ rest[i].name # rest[j].name
                         /\ rest[i].keyword_only => rest[j].keyword_only }

\* the function scenarios that have been run on the function
ScenariosRan == IF result = NoResult THEN {} ELSE result.ran

InitRouteArgs ==
    /\ pc = "function_scenarios"
    /\ args \in [ function : KeywordOnlyFunctions,
                  pattern : [ parts : PatternParts ] ]
    /\ result = NoResult
    /\ NoRunner

\* CheckRequiredArgsMatchUrlPatternFunctionScenario.run, on the container
\* the other scenario adds to as well
RunRequiredArgsMatchUrlPattern ==
    /\ pc = "function_scenarios"
    /\ "coverage" \notin ScenariosRan
    /\ LET found == collect_missing(args.function, args.pattern, 1,
                                    args.function.positional, {})
           pattern_wheres == [ i \in DOMAIN args.pattern.parts |->
                                 args.pattern.parts[i].where ]
       IN  errors' =
             IF found # {}
             THEN add(errors,
                      RequiredArgOnViewNotAlwaysRequiredByPattern(pattern_wheres, found))
             ELSE errors
    /\ result' = [kind |-> "returned", ran |-> ScenariosRan \cup {"coverage"}]
    /\ UNCHANGED << pc, args >>
    /\ UNCHANGED notScenarioVars

\* CheckAcceptsArgsFunctionScenario.run, on the container the other scenario
\* adds to as well
RunAcceptsArgs ==
    /\ pc = "function_scenarios"
    /\ "accepts" \notin ScenariosRan
    /\ IF args.function.allows_arbitrary
       THEN UNCHANGED errors
       ELSE LET available == collect_available(args.function, 1,
                                               args.function.positional, {})
                missing_pairs == collect_unaccepted(args.pattern, available, 1)
            IN  errors' = IF missing_pairs # <<>>
                          THEN add(errors, ViewDoesNotAcceptCapturedArg(missing_pairs))
                          ELSE errors
    /\ result' = [kind |-> "returned", ran |-> ScenariosRan \cup {"accepts"}]
    /\ UNCHANGED << pc, args >>
    /\ UNCHANGED notScenarioVars

NextRouteArgs == RunRequiredArgsMatchUrlPattern \/ RunAcceptsArgs

SpecRouteArgs == InitRouteArgs /\ [][NextRouteArgs]_vars

\* the keyword-only parameters of the function
KeywordOnly == { k \in DOMAIN NonSelf : NonSelf[k].keyword_only }

\* some part of the route captures the name or binds it by default
Supplied(name) ==
    \E i \in DOMAIN args.pattern.parts :
        \/ name \in args.pattern.parts[i].captured
        \/ name \in args.pattern.parts[i].default_arg_names

\* C29: in the coverage and the accepts scenario a keyword-only parameter is
\* always past the positional context: a required keyword-only parameter
\* that no part supplies is reported missing, and the name of a keyword-only
\* parameter is never reported as not accepted, also when the function has
\* fewer positional parameters than the context has slots.
C29_ContextLeavesKeywordOnlyAlone ==
    pc = "function_scenarios" =>
        \A k \in KeywordOnly :
            /\ ( /\ "coverage" \in ScenariosRan
                 /\ NonSelf[k].required
                 /\ ~Supplied(NonSelf[k].name) )
                  => \E e \in Range(Iter(errors)) :
                        /\ e.cls = "RequiredArgOnViewNotAlwaysRequiredByPattern"
                        /\ NonSelf[k].name \in e.missing_args
            /\ "accepts" \in ScenariosRan
                  => \A e \in Range(Iter(errors)) :
                        e.cls = "ViewDoesNotAcceptCapturedArg"
                            => \A m \in DOMAIN e.missing :
                                  e.missing[m][2] # NonSelf[k].name

(* --------- from_raw_patterns and run_scenarios, call after call -------- *)

\* faulty variant: one container is shared by all calls
new_container_Shared(previous) == previous

\* `errors = _errors.ErrorContainer()`, the first line of both calls;
\* `previous` is the container the call before it has left behind
new_container(previous) == ErrorContainer

\* a scenario that does the same on every run: it adds nothing, or one
\* violation
DeterministicScenarios ==
    [ exit_early : BOOLEAN, adds : {<<>>} \cup { <<e>> : e \in ScenarioErrors } ]

\* run_scenarios is given no or one scenario of each kind
ScenarioLists == { <<>> } \cup { << s >> : s \in DeterministicScenarios }

\* the raw routes of one from_raw_patterns call: none is excluded, and the
\* pattern maker returns a pattern or raises the same InvalidPattern
RawRoutes ==
    [ excluded : {FALSE},
      made : { m \in MakerOutcomes :
                 \/ m.kind = "pattern"
                 \/ (m.kind = "InvalidPattern" /\ m.error.cls = "ErrorA") } ]

RawRouteLists == UNION { [1..n -> RawRoutes] : n \in 0..MaxPatterns }

\* lines 55-64: the loop over raw_patterns from route i on
RECURSIVE build_patterns(_, _, _, _, _)
build_patterns(routes, excluder, i, container, made_patterns) ==
    IF exhausted(i, routes)
    THEN [errors |-> container, patterns |-> made_patterns]
    ELSE IF excluder /\ routes[i].excluded
    THEN build_patterns(routes, excluder, i + 1, container, made_patterns)
    ELSE IF routes[i].made.kind = "pattern"
    THEN build_patterns(routes, excluder, i + 1, container, Append(made_patterns, i))
    ELSE build_patterns(routes, excluder, i + 1,
                        add(container, routes[i].made.error), made_patterns)

\* lines 96-102: one pattern scenario run on the patterns from index i on
RECURSIVE sweep_patterns(_, _, _, _)
sweep_patterns(scenario, self_patterns, i, container) ==
    IF exhausted(i, self_patterns) THEN container
    ELSE IF exclude(self_patterns[i])
    THEN sweep_patterns(scenario, self_patterns, i + 1, container)
    ELSE sweep_patterns(scenario, self_patterns, i + 1, run(container, scenario.adds))

\* lines 112-123: one function scenario run on the functions of one pattern
\* from index k on
RECURSIVE sweep_functions(_, _, _, _, _)
sweep_functions(scenario, pattern, functions, k, container) ==
    IF exhausted(k, functions) THEN container
    ELSE IF exclude_function(pattern, functions[k])
    THEN sweep_functions(scenario, pattern, functions, k + 1, container)
    ELSE sweep_functions(scenario, pattern, functions, k + 1,
                         run(container, scenario.adds))

\* lines 108-123: one function scenario run on the patterns from index i on
RECURSIVE sweep_pattern_functions(_, _, _, _)
sweep_pattern_functions(scenario, self_patterns, i, container) ==
    IF exhausted(i, self_patterns) THEN container
    ELSE IF exclude(self_patterns[i])
    THEN sweep_pattern_functions(scenario, self_patterns, i + 1, container)
    ELSE sweep_pattern_functions(
             scenario, self_patterns, i + 1,
             sweep_functions(scenario, self_patterns[i],
                             relevant_functions(self_patterns[i]), 1, container))

Ended(container, exception) == [errors |-> container, raised |-> exception]

\* lines 107-129: the function scenarios from index s on, and the last lines
RECURSIVE run_function_scenarios(_, _, _, _)
run_function_scenarios(scenarios, self_patterns, s, container) ==
    IF exhausted(s, scenarios)
    THEN IF any(container)
         THEN Ended(container, FoundInvalidPatterns(container, 129))
         ELSE Ended(container, NoException)
    ELSE LET swept == sweep_pattern_functions(scenarios[s], self_patterns, 1, container)
         IN  IF exit_early_fires(scenarios[s].exit_early, swept)
             THEN Ended(swept, FoundInvalidPatterns(swept, 126))
             ELSE run_function_scenarios(scenarios, self_patterns, s + 1, swept)

\* lines 95-105: the pattern scenarios from index s on, then the rest
RECURSIVE run_pattern_scenarios(_, _, _, _, _)
run_pattern_scenarios(scenarios, then_scenarios, self_patterns, s, container) ==
    IF exhausted(s, scenarios)
    THEN run_function_scenarios(then_scenarios, self_patterns, 1, container)
    ELSE LET swept == sweep_patterns(scenarios[s], self_patterns, 1, container)
         IN  IF exit_early_fires(scenarios[s].exit_early, swept)
             THEN Ended(swept, FoundInvalidPatterns(swept, 105))
             ELSE run_pattern_scenarios(scenarios, then_scenarios, self_patterns,
                                        s + 1, swept)

\* what has been called so far: the from_raw_patterns calls, those of them
\* that raised, and how each run_scenarios call on the runner ended
NoCalls == [builds |-> 0, failed |-> 0, runs |-> <<>>, last |-> "None"]

\* no runner yet; the scenarios that every run_scenarios call will be given
InitLifecycle ==
    /\ pc = "no runner"
    /\ errors = ErrorContainer
    /\ patterns = <<>>
    /\ raised = NoException
    /\ excluded = {}
    /\ nfunctions = [p \in 1..MaxPatterns |-> 1]
    /\ fexcluded = {}
    /\ pattern_scenarios \in ScenarioLists
    /\ function_scenarios \in ScenarioLists
    /\ exit_early = FALSE
    /\ si = 1 /\ pi = 1 /\ fi = 1
    /\ called = <<>>
    /\ exclude_function_calls = {}
    /\ recorded = [s \in ErrorStrs |-> 0]
    /\ sweep_failed = FALSE
    /\ patterns_failed = FALSE
    /\ raw_patterns = <<>>
    /\ has_excluder = FALSE
    /\ ri = 1
    /\ build_called = <<>>
    /\ added = <<>>
    /\ yielded = NothingYielded
    /\ args = <<>>
    /\ result = NoCalls

lifecycleInputs == << excluded, nfunctions, fexcluded, pattern_scenarios,
                      function_scenarios, exit_early, si, pi, fi, called,
                      exclude_function_calls, recorded, sweep_failed,
                      patterns_failed, has_excluder, ri, build_called, added,
                      yielded, args >>

\* TestRunner.from_raw_patterns(raw_patterns=routes, ...), the whole call;
\* the runner it returns takes the place of the one before
FromRawPatterns ==
    /\ result.builds < MaxCalls
    /\ \E routes \in RawRouteLists :
         LET built == build_patterns(routes, has_excluder, 1,
                                     new_container(errors), <<>>)
         IN  /\ raw_patterns' = routes
             /\ errors' = built.errors
             /\ IF any(built.errors)
                THEN /\ raised' = FoundInvalidPatterns(built.errors, 67)
                     /\ result' = [result EXCEPT !.builds = @ + 1, !.failed = @ + 1,
                                                 !.last = "from_raw_patterns"]
                     /\ UNCHANGED << pc, patterns >>
                ELSE /\ raised' = NoException
                     /\ pc' = "runner"
                     /\ patterns' = built.patterns
                     /\ result' = [result EXCEPT !.builds = @ + 1, !.runs = <<>>,
                                                 !.last = "from_raw_patterns"]
    /\ UNCHANGED lifecycleInputs

\* runner.run_scenarios(pattern_scenarios=..., function_scenarios=...), the
\* whole call
RunScenarios ==
    /\ pc = "runner"
    /\ Len(result.runs) < MaxCalls
    /\ LET ended == run_pattern_scenarios(pattern_scenarios, function_scenarios,
                                          patterns, 1, new_container(errors))
       IN  /\ errors' = ended.errors
           /\ raised' = ended.raised
           /\ result' = [result EXCEPT !.runs = Append(@, ended),
                                       !.last = "run_scenarios"]
    /\ UNCHANGED << pc, patterns, raw_patterns >>
    /\ UNCHANGED lifecycleInputs

NextLifecycle == FromRawPatterns \/ RunScenarios

SpecLifecycle == InitLifecycle /\ [][NextLifecycle]_vars

\* how often the string is counted in the container
CountOf(container, error_str) ==
    IF \E i \in DOMAIN container.by_error_str : container.by_error_str[i][1] = error_str
    THEN container.by_error_str[
             CHOOSE i \in DOMAIN container.by_error_str :
                 container.by_error_str[i][1] = error_str][2]
    ELSE 0

\* the raw routes of the last from_raw_patterns call whose pattern maker
\* raised a violation rendered as the string
InvalidRoutes(error_str) ==
    { i \in DOMAIN raw_patterns :
        /\ raw_patterns[i].made.kind = "InvalidPattern"
        /\ raw_patterns[i].made.error.value = error_str }

\* the scenarios of the list that add a violation rendered as the string
Adding(scenarios, error_str) ==
    { k \in DOMAIN scenarios :
        scenarios[k].adds # <<>> /\ scenarios[k].adds[1].value = error_str }

\* how often the scenarios add the string in one run_scenarios call that no
\* early exit cuts short: once per pattern (each pattern has one function)
AddedPerRun(error_str) ==
    Len(patterns) * ( Cardinality(Adding(pattern_scenarios, error_str))
                        + Cardinality(Adding(function_scenarios, error_str)) )

NoEarlyExit ==
    /\ \A k \in DOMAIN pattern_scenarios : ~pattern_scenarios[k].exit_early
    /\ \A k \in DOMAIN function_scenarios : ~function_scenarios[k].exit_early

\* the batch of a from_raw_patterns call counts that call's routes only, and
\* the call fails exactly when one of its own routes is invalid
BuildStartsEmpty ==
    result.last = "from_raw_patterns" =>
        /\ \A error_str \in ErrorStrs :
              CountOf(errors, error_str) = Cardinality(InvalidRoutes(error_str))
        /\ (raised # NoException) = (\E error_str \in ErrorStrs :
                                        InvalidRoutes(error_str) # {})
        /\ raised # NoException => raised.errors = errors

\* the batch of a run_scenarios call counts what the scenarios added in that
\* call only, and every call on the runner ends as the first one did
RunStartsEmpty ==
    result.last = "run_scenarios" =>
        /\ \A error_str \in ErrorStrs :
              /\ CountOf(errors, error_str) <= AddedPerRun(error_str)
              /\ NoEarlyExit => CountOf(errors, error_str) = AddedPerRun(error_str)
        /\ raised # NoException => raised.errors = errors
        /\ (\A error_str \in ErrorStrs : AddedPerRun(error_str) = 0)
              => raised = NoException
        /\ \A k \in DOMAIN result.runs : result.runs[k] = result.runs[1]

\* run_scenarios does not change the runner's patterns
RunKeepsPatterns ==
    (result'.last = "run_scenarios" /\ result' # result) => patterns' = patterns

\* C30: each from_raw_patterns call and each run_scenarios call starts from
\* its own empty container and run_scenarios leaves the runner's patterns as
\* they are: violations of the construction or of an earlier run_scenarios
\* call are neither in, nor counted in, the batch of a later call, and the
\* same scenarios run twice on one runner end the same way with the same
\* counts.
C30_EachCallStartsEmpty ==
    /\ [](BuildStartsEmpty /\ RunStartsEmpty)
    /\ [][RunKeepsPatterns]_vars

\* after a from_raw_patterns call that failed, a runner of two patterns was
\* built and its scenarios run twice: both runs failed with one string
\* counted twice
C30_Witness ==
    /\ result.failed = 1 /\ result.builds = 2
    /\ Len(patterns) = 2
    /\ Len(result.runs) = 2
    /\ result.runs[2].raised # NoException
    /\ result.runs[2] = result.runs[1]
    /\ \E error_str \in ErrorStrs : CountOf(errors, error_str) = 2

====
